---- MODULE Spec2Model ----
(***************************************************************************)
(* Model of the tutoring response engine: GeminiService.generate_response  *)
(* (safety filter, greeting shortcut, retry loop with backoff, fallback,   *)
(* expansion pass) and of the quiz engine that calls it                    *)
(* (calculate_quiz_score, submit_quiz, update_progress).                   *)
(*                                                                         *)
(* Texts are strings; a character of a text is a string of length one.     *)
(***************************************************************************)
EXTENDS Integers, Sequences, FiniteSets, TLC

(***************************************************************************)
(* Text primitives (Python str methods used by the code).                  *)
(***************************************************************************)
CharAt(s, i) == SubSeq(s, i, i)

UpperChars == "ABCDEFGHIJKLMNOPQRSTUVWXYZ"

LowerChars == "abcdefghijklmnopqrstuvwxyz"

LowerOf ==
  [c \in {CharAt(UpperChars, i) : i \in 1..26} |->
     CharAt(LowerChars, CHOOSE i \in 1..26 : CharAt(UpperChars, i) = c)]

LowerChar(c) == IF c \in DOMAIN LowerOf THEN LowerOf[c] ELSE c

RECURSIVE Lower(_)
\* str.lower(), by halves
Lower(s) ==
  IF Len(s) = 0 THEN ""
  ELSE IF Len(s) = 1 THEN LowerChar(s)
  ELSE Lower(SubSeq(s, 1, Len(s) \div 2))
         \o Lower(SubSeq(s, Len(s) \div 2 + 1, Len(s)))

\* w in s
Contains(s, w) ==
  \E i \in 1..(Len(s) - Len(w) + 1) : SubSeq(s, i, i + Len(w) - 1) = w

\* any(w in s for w in ws)
ContainsAny(s, ws) == \E w \in ws : Contains(s, w)

\* s.lower().startswith(p)
LowerStartsWith(s, p) ==
  Len(s) >= Len(p) /\ Lower(SubSeq(s, 1, Len(p))) = p

Whitespace == {" ", "\n", "\t", "\r"}

SetMin(S) == CHOOSE x \in S : \A y \in S : x <= y

RECURSIVE FirstKept(_, _, _)
\* index of the first character of s at or after i that is not in chars
FirstKept(s, chars, i) ==
  IF i > Len(s) \/ CharAt(s, i) \notin chars THEN i
  ELSE FirstKept(s, chars, i + 1)

RECURSIVE LastKept(_, _, _)
\* index of the last character of s at or before i that is not in chars
LastKept(s, chars, i) ==
  IF i < 1 \/ CharAt(s, i) \notin chars THEN i
  ELSE LastKept(s, chars, i - 1)

\* s.strip(chars): drop leading and trailing characters that are in chars
StripChars(s, chars) ==
  SubSeq(s, FirstKept(s, chars, 1), LastKept(s, chars, Len(s)))

\* s.strip()
Strip(s) == StripChars(s, Whitespace)

\* indices at which a whitespace-separated word of s starts
WordStarts(s) ==
  {i \in 1..Len(s) : /\ CharAt(s, i) \notin Whitespace
                     /\ (i = 1 \/ CharAt(s, i - 1) \in Whitespace)}

\* len(s.split())
WordCount(s) == Cardinality(WordStarts(s))

RECURSIVE SplitLines(_)
\* s.splitlines()
SplitLines(s) ==
  IF Len(s) = 0 THEN << >>
  ELSE LET nl == {i \in 1..Len(s) : CharAt(s, i) = "\n"}
       IN  IF nl = {} THEN << s >>
           ELSE << SubSeq(s, 1, SetMin(nl) - 1) >>
                  \o SplitLines(SubSeq(s, SetMin(nl) + 1, Len(s)))

RECURSIVE JoinLines(_)
\* "\n".join(lines)
JoinLines(lines) ==
  IF Len(lines) = 0 THEN ""
  ELSE IF Len(lines) = 1 THEN lines[1]
  ELSE lines[1] \o "\n" \o JoinLines(Tail(lines))

RECURSIVE Repeat(_, _)
\* s * n
Repeat(s, n) == IF n <= 0 THEN "" ELSE s \o Repeat(s, n - 1)

Digits == "0123456789"

DigitValueOf == [c \in {CharAt(Digits, d) : d \in 1..10} |->
                   (CHOOSE d \in 1..10 : CharAt(Digits, d) = c) - 1]

IsDigit(c) == c \in DOMAIN DigitValueOf

DigitValue(c) == DigitValueOf[c]

\* re.search(r'\d+', s) finds a match
HasInt(s) == \E i \in 1..Len(s) : IsDigit(CharAt(s, i))

RECURSIVE DigitRun(_, _, _)
\* int() of the maximal run of digits of s that starts at i
DigitRun(s, i, acc) ==
  IF i > Len(s) \/ ~IsDigit(CharAt(s, i)) THEN acc
  ELSE DigitRun(s, i + 1, 10 * acc + DigitValue(CharAt(s, i)))

\* int(re.search(r'\d+', s).group(0))
FirstInt(s) ==
  DigitRun(s, SetMin({i \in 1..Len(s) : IsDigit(CharAt(s, i))}), 0)

Min(a, b) == IF a <= b THEN a ELSE b

(***************************************************************************)
(* GeminiService: fixed tables.                                            *)
(***************************************************************************)
safety_prompts == {"kill", "bomb", "hate", "illegal", "hack", "drug"}

greeting_markers ==
  {"hi", "hey", "hello", "salam", "salaam", "asl", "assalam", "asalam", "yo"}

roman_markers == {"salam", "salaam", "asl", "assalam", "asalam"}

short_markers ==
  {"short", "brief", "one line", "one-line", "tl;dr", "define", "definition",
   "what is", "who is"}

detailed_markers ==
  {"detail", "detailed", "steps", "step by step", "kaise", "kesi", "explain",
   "roadmap", "plan"}

meta_prefixes ==
  {"you are", "instructions:", "context:", "student question:", "reply only"}

quota_indicators ==
  {"quota exceeded", "429", "rate limit", "too many requests", "billing",
   "free tier"}

RefusalMessage == "Sorry, I can only help with educational questions."

RomanGreeting ==
  "Salam! Main madad ke liye yahan hoon. Aap ko kis topic par guidance chahiye?"

EnglishGreeting ==
  "Hi! How can I help you today? Which topic do you want to learn?"

EmptyOutputMessage ==
  "I apologize, but I couldn't generate a proper response. Please try rephrasing your question."

LoopExitMessage ==
  "I apologize, but I couldn't generate a proper response. Please try again."

HardFailureMessage(error_msg) ==
  "I apologize, but I encountered an error: " \o error_msg \o ". Please try again."

\* the keyword-specific paragraphs of get_fallback_response, in the order the
\* code tests them: <<subject, keywords, paragraph>> (the radical sign of the
\* quadratic formula is written sqrt)
keyword_fallbacks ==
  <<
    << "coding", {"variable", "var", "store"},
       "Variables in programming store data values. In Python, you can create variables like: name = 'John' or age = 25. Variables help you save and reuse data in your programs." >>,
    << "coding", {"function", "def", "method"},
       "Functions are reusable blocks of code. In Python, define functions with 'def': def greet(name): return f'Hello {name}'. Functions help organize code and avoid repetition." >>,
    << "coding", {"loop", "for", "while", "repeat"},
       "Loops repeat actions in your code. 'for' loops iterate through lists: for item in [1,2,3]: print(item). 'while' loops continue until a condition is false." >>,
    << "math", {"derivative", "differentiation", "rate"},
       "Derivatives measure how fast something changes. The derivative of x² is 2x. This tells us the slope of the curve at any point, useful in physics and engineering." >>,
    << "math", {"integral", "integration", "area"},
       "Integrals find the area under curves or total accumulation. The integral of 2x is x² + C. Integrals are used to calculate areas, volumes, and solve differential equations." >>,
    << "math", {"equation", "solve", "quadratic"},
       "To solve equations, isolate the variable. For quadratic equations ax² + bx + c = 0, use the quadratic formula: x = (-b ± sqrt(b²-4ac)) / 2a." >>,
    << "ielts", {"writing", "essay", "task"},
       "IELTS Writing Task 2 requires a clear essay structure: Introduction (state your position), Body paragraphs (with examples), Conclusion (summarize). Use formal language and varied vocabulary." >>,
    << "ielts", {"speaking", "talk", "discuss"},
       "IELTS Speaking tests fluency, vocabulary, grammar, and pronunciation. Practice speaking clearly, use varied vocabulary, and express ideas with examples. Don't worry about perfect grammar - focus on communication." >>,
    << "ielts", {"reading", "comprehension", "passage"},
       "IELTS Reading strategies: 1) Skim for main ideas, 2) Scan for specific information, 3) Read questions first, 4) Look for keywords, 5) Don't spend too much time on difficult questions." >>,
    << "physics", {"newton", "law", "motion", "force"},
       "Newton's laws: 1) Objects at rest stay at rest (inertia), 2) F = ma (force equals mass times acceleration), 3) Action and reaction are equal and opposite. These explain most motion in everyday life." >>,
    << "physics", {"energy", "kinetic", "potential"},
       "Energy comes in forms: Kinetic (motion) = ½mv², Potential (stored) = mgh. Energy is conserved - it transforms but never disappears. This principle explains many physical phenomena." >>,
    << "physics", {"wave", "frequency", "amplitude"},
       "Waves transfer energy without transferring matter. Frequency determines pitch (sound) or color (light). Amplitude determines volume (sound) or brightness (light). Waves can interfere constructively or destructively." >>
  >>

\* load_fallback_responses
fallback_responses ==
  [s \in {"coding", "math", "ielts", "physics", "general"} |->
    CASE s = "coding" -> {
        "Coding is the process of writing instructions for computers using programming languages like Python, JavaScript, or Java. It involves problem-solving, logic, and creativity to build software applications.",
        "Programming languages are tools that help us communicate with computers. Popular languages include Python (great for beginners), JavaScript (for web development), and Java (for enterprise applications).",
        "To start coding, choose a language like Python, practice basic concepts like variables and functions, and work on small projects. Online platforms like Codecademy or freeCodeCamp are excellent resources.",
        "Variables in programming store data values. Functions are reusable blocks of code that perform specific tasks. Loops help repeat actions, and conditions help make decisions in your code.",
        "Debugging is finding and fixing errors in your code. Use print statements, debuggers, and systematic testing to identify and resolve issues."}
      [] s = "math" -> {
        "Mathematics is the study of numbers, shapes, patterns, and relationships. It helps develop logical thinking and problem-solving skills essential for many fields.",
        "Algebra involves working with variables and equations. Calculus deals with rates of change and accumulation. Geometry studies shapes and spatial relationships.",
        "To solve math problems, read carefully, identify what's given and what's needed, choose appropriate methods, and check your work. Practice regularly to improve.",
        "Derivatives measure how fast something changes. Integrals find the total accumulation. These concepts are fundamental in calculus and have many real-world applications.",
        "Trigonometry studies relationships between angles and sides of triangles. It's used in physics, engineering, and many other fields."}
      [] s = "ielts" -> {
        "IELTS (International English Language Testing System) is an English proficiency test for study, work, or migration. It has four sections: Listening, Reading, Writing, and Speaking.",
        "For IELTS Writing Task 1, describe graphs, charts, or processes clearly. For Task 2, write essays with clear arguments, examples, and proper structure.",
        "IELTS Speaking has three parts: introduction/interview, individual long turn, and two-way discussion. Practice speaking clearly, use varied vocabulary, and express ideas fluently.",
        "Reading strategies include skimming for main ideas, scanning for specific information, and understanding different question types like multiple choice, matching, and true/false.",
        "Listening practice involves understanding different accents, note-taking, and following instructions. Practice with various audio materials and focus on key information."}
      [] s = "physics" -> {
        "Physics is the study of matter, energy, and their interactions. It explains how the universe works through fundamental laws and principles.",
        "Newton's laws describe motion: 1) Objects at rest stay at rest unless acted upon, 2) Force equals mass times acceleration, 3) For every action there's an equal and opposite reaction.",
        "Energy comes in different forms: kinetic (motion), potential (stored), thermal (heat), and electrical. Energy is conserved - it can't be created or destroyed, only transformed.",
        "Waves transfer energy without transferring matter. Sound waves need a medium, while light waves can travel through vacuum. Frequency determines pitch in sound and color in light.",
        "Electricity involves the flow of electrons. Circuits have components like resistors, capacitors, and batteries. Understanding voltage, current, and resistance is fundamental."}
      [] s = "general" -> {
        "Learning is a continuous process that helps you grow and develop new skills. Choose topics that interest you and practice regularly for best results.",
        "Effective learning involves understanding concepts, practicing regularly, asking questions, and applying knowledge to real-world situations.",
        "Break complex topics into smaller parts, use different learning methods (visual, auditory, hands-on), and review material regularly to improve retention.",
        "Don't be afraid to make mistakes - they're part of the learning process. Seek help when needed and stay curious about new topics.",
        "Consistent practice and patience are key to mastering any subject. Set realistic goals and celebrate your progress along the way."}
  ]

(***************************************************************************)
(* GeminiService: pure helpers of generate_response.                       *)
(***************************************************************************)
\* faulty variant of is_safe: the prompt is not lower-cased before the test
is_safe_case_sensitive(p) == ~ContainsAny(p, safety_prompts)

\* is_safe(prompt)
is_safe(p) == ~ContainsAny(Lower(p), safety_prompts)

\* faulty variant of the greeting test: surrounding punctuation is kept
IsGreetingKeepingPunctuation(p) ==
  LET lowered == Strip(Lower(p))
  IN  WordCount(lowered) <= 2 /\ lowered \in greeting_markers

\* the greeting test of generate_response
IsGreeting(p) ==
  LET lowered == Strip(Lower(p))
  IN  /\ WordCount(lowered) <= 2
      /\ StripChars(lowered, {"!", ".", ",", " "}) \in greeting_markers

\* the canned greeting chosen for a greeting prompt
GreetingReply(p) ==
  IF ContainsAny(Strip(Lower(p)), roman_markers)
  THEN RomanGreeting ELSE EnglishGreeting

\* is_short
IsShort(p) ==
  \/ ContainsAny(Strip(Lower(p)), short_markers)
  \/ (Contains(p, "?") /\ WordCount(p) <= 15)

\* is_detailed
IsDetailed(p) ==
  \/ ContainsAny(Strip(Lower(p)), detailed_markers)
  \/ (~IsShort(p) /\ WordCount(p) > 12)

\* is_quota_exceeded_error(error_msg)
is_quota_exceeded_error(error_msg) ==
  ContainsAny(Lower(error_msg), quota_indicators)

RECURSIVE DropMeta(_)
\* while lines and lines[0] starts with a meta prefix: lines.pop(0)
DropMeta(lines) ==
  IF Len(lines) > 0 /\ \E p \in meta_prefixes : LowerStartsWith(lines[1], p)
  THEN DropMeta(Tail(lines))
  ELSE lines

\* the clean-up of the primary reply: strip, drop blank lines, drop leading
\* meta lines, join, strip
CleanResponse(text) ==
  LET lines == SelectSeq(SplitLines(Strip(text)), LAMBDA l : Strip(l) # "")
  IN  Strip(JoinLines(DropMeta(lines)))

\* faulty variant of the adoption test: every expansion is adopted
AdoptEnhancedAlways(enhanced_text, cleaned_text) == TRUE

\* the expansion is adopted when len(enhanced.split()) > len(cleaned.split())*0.8
AdoptEnhanced(enhanced_text, cleaned_text) ==
  10 * WordCount(enhanced_text) > 8 * WordCount(cleaned_text)

\* faulty variant of get_fallback_response: the keyword paragraphs are skipped
get_fallback_response_without_keywords(p, s) ==
  IF Lower(s) \in DOMAIN fallback_responses
  THEN fallback_responses[Lower(s)]
  ELSE fallback_responses["general"]

\* get_fallback_response(prompt, subject): the set of texts it may return
\* (one text when a keyword paragraph matches, else random.choice(responses))
get_fallback_response(p, s) ==
  LET sl == Lower(s)
      responses == IF sl \in DOMAIN fallback_responses
                   THEN fallback_responses[sl]
                   ELSE fallback_responses["general"]
      hits == {i \in 1..Len(keyword_fallbacks) :
                 /\ keyword_fallbacks[i][1] = sl
                 /\ ContainsAny(Lower(p), keyword_fallbacks[i][2])}
  IN  IF hits # {} THEN {keyword_fallbacks[SetMin(hits)][3]} ELSE responses

RECURSIVE Pow2(_)
Pow2(n) == IF n <= 0 THEN 1 ELSE 2 * Pow2(n - 1)

(***************************************************************************)
(* LLMSService: fixed tables and pure helpers of generate_response.        *)
(***************************************************************************)
llms_safety_prompts == {"kill", "bomb", "hate", "illegal", "hack", "drug"}

llms_greeting_markers ==
  {"hi", "hey", "hello", "salam", "salaam", "asl", "assalam", "asalam", "yo",
   "hi!", "hey!", "hello!", "salaam!", "ok", "okay", "thanks", "thx"}

llms_roman_markers == {"salam", "salaam", "asl", "assalam", "asalam"}

llms_short_markers ==
  {"short", "brief", "one line", "one-line", "tl;dr", "define", "definition",
   "what is", "who is", "synonym", "antonym"}

llms_detailed_markers ==
  {"detail", "detailed", "steps", "step by step", "kaise", "kesi", "explain",
   "roadmap", "plan"}

leakage_prefixes ==
  {"you are a helpful", "instructions:", "use these few-shot", "user (in",
   "assistant:", "system:", "[inst]", "[/inst]"}

LLMSRefusalMessage == "Sorry, educational questions only."

\* the refinement pass is tried below this many words
RefineBelowWords == 60

\* LLMSService.is_safe(prompt)
llms_is_safe(p) == ~ContainsAny(Lower(p), llms_safety_prompts)

\* the greeting test of LLMSService.generate_response
LLMSIsGreeting(p) ==
  LET lowered == Lower(p)
  IN  /\ WordCount(lowered) <= 2
      /\ StripChars(lowered, {"!", ".", ",", " "}) \in llms_greeting_markers

LLMSGreetingReply(p) ==
  IF ContainsAny(Lower(p), llms_roman_markers)
  THEN RomanGreeting ELSE EnglishGreeting

LLMSIsShort(p) ==
  \/ ContainsAny(Lower(p), llms_short_markers)
  \/ (Contains(p, "?") /\ WordCount(p) <= 15)

LLMSIsDetailed(p) ==
  \/ ContainsAny(Lower(p), llms_detailed_markers)
  \/ (~LLMSIsShort(p) /\ WordCount(p) > 12)

RECURSIVE DropLeakage(_)
\* while lines and lines[0] starts with a leakage prefix: lines.pop(0)
DropLeakage(lines) ==
  IF Len(lines) > 0 /\ \E p \in leakage_prefixes : LowerStartsWith(lines[1], p)
  THEN DropLeakage(Tail(lines))
  ELSE lines

RECURSIVE SplitSentences(_)
\* re.split(r'(?<=[.!?])\s+', s)
SplitSentences(s) ==
  LET cuts == {i \in 2..Len(s) : /\ CharAt(s, i) \in Whitespace
                                 /\ CharAt(s, i - 1) \in {".", "!", "?"}}
  IN  IF cuts = {} THEN << s >>
      ELSE LET i == SetMin(cuts)
           IN  << SubSeq(s, 1, i - 1) >>
                 \o SplitSentences(SubSeq(s, FirstKept(s, Whitespace, i), Len(s)))

RECURSIVE UniqueSentences(_, _)
\* [x for x in sentences if x not in seen and not seen.add(x)]
UniqueSentences(sentences, seen) ==
  IF Len(sentences) = 0 THEN << >>
  ELSE IF Head(sentences) \in seen THEN UniqueSentences(Tail(sentences), seen)
  ELSE << Head(sentences) >>
         \o UniqueSentences(Tail(sentences), seen \cup {Head(sentences)})

RECURSIVE JoinWords(_)
\* ' '.join(parts)
JoinWords(parts) ==
  IF Len(parts) = 0 THEN ""
  ELSE IF Len(parts) = 1 THEN parts[1]
  ELSE parts[1] \o " " \o JoinWords(Tail(parts))

\* the sanitising of the reply: strip, drop blank lines, drop leading leaked
\* lines, join, strip, drop repeated sentences; final = cleaned or response
LLMSFinal(text) ==
  LET lines == SelectSeq(SplitLines(Strip(text)), LAMBDA l : Strip(l) # "")
      response_text == Strip(JoinLines(DropLeakage(lines)))
      deduplicated ==
        Strip(JoinWords(UniqueSentences(SplitSentences(response_text), {})))
  IN  IF deduplicated # "" THEN deduplicated ELSE response_text

(***************************************************************************)
(* routers/quiz.py, generate_quiz_questions: extraction and parsing of the *)
(* JSON block of a reply.  json.loads is modelled for objects whose        *)
(* members are strings without escapes; the replies the model draws are    *)
(* texts on which this agrees with json.loads.                             *)
(***************************************************************************)
\* re.search(r'\{.*\}', response, re.DOTALL): the text from the first "{" to
\* the last "}" of the response, "" standing for no match
JsonMatch(response) ==
  LET opens  == {i \in 1..Len(response) : CharAt(response, i) = "{"}
      closes == {i \in 1..Len(response) : CharAt(response, i) = "}"}
  IN  IF opens = {} \/ closes = {} THEN ""
      ELSE LET first == SetMin(opens)
               last  == CHOOSE j \in closes : \A c \in closes : c <= j
           IN  IF first < last THEN SubSeq(response, first, last) ELSE ""

\* the first position at or after i that holds no whitespace
SkipWhitespace(s, i) ==
  LET rest == {j \in i..Len(s) : CharAt(s, j) \notin Whitespace}
  IN  IF rest = {} THEN Len(s) + 1 ELSE SetMin(rest)

JsonError == [ok |-> FALSE, value |-> "", next |-> 0]

\* a JSON string that starts at position i
JsonString(s, i) ==
  IF i > Len(s) \/ CharAt(s, i) # "\"" THEN JsonError
  ELSE LET quotes == {j \in (i + 1)..Len(s) : CharAt(s, j) = "\""}
       IN  IF quotes = {} THEN JsonError
           ELSE LET j == SetMin(quotes)
                    text == SubSeq(s, i + 1, j - 1)
                IN  IF \E n \in 1..Len(text) :
                         CharAt(text, n) \in {"\\", "\n", "\t", "\r"}
                    THEN JsonError
                    ELSE [ok |-> TRUE, value |-> text, next |-> j + 1]

RECURSIVE JsonMembers(_, _, _)
\* the members of an object from position i on, added to the dict acc (a
\* repeated key keeps its last value); i is just after "{" or ","
JsonMembers(s, i, acc) ==
  LET key   == JsonString(s, SkipWhitespace(s, i))
      colon == SkipWhitespace(s, key.next)
      val   == JsonString(s, SkipWhitespace(s, colon + 1))
      after == SkipWhitespace(s, val.next)
      dict  == [n \in DOMAIN acc \cup {key.value} |->
                  IF n = key.value THEN val.value ELSE acc[n]]
  IN  IF ~key.ok \/ colon > Len(s) \/ CharAt(s, colon) # ":" THEN
        [ok |-> FALSE, data |-> << >>, next |-> 0]
      ELSE IF ~val.ok \/ after > Len(s) THEN
        [ok |-> FALSE, data |-> << >>, next |-> 0]
      ELSE IF CharAt(s, after) = "," THEN JsonMembers(s, after + 1, dict)
      ELSE IF CharAt(s, after) = "}" THEN
        [ok |-> TRUE, data |-> dict, next |-> after + 1]
      ELSE [ok |-> FALSE, data |-> << >>, next |-> 0]

\* json.loads(s): ok is FALSE where json.loads raises JSONDecodeError
JsonLoads(s) ==
  LET start == SkipWhitespace(s, 1)
      inner == SkipWhitespace(s, start + 1)
      parsed ==
        IF start > Len(s) \/ CharAt(s, start) # "{" THEN
          [ok |-> FALSE, data |-> << >>, next |-> 0]
        ELSE IF inner <= Len(s) /\ CharAt(s, inner) = "}" THEN
          [ok |-> TRUE, data |-> << >>, next |-> inner + 1]
        ELSE JsonMembers(s, start + 1, << >>)
  IN  IF parsed.ok /\ SkipWhitespace(s, parsed.next) > Len(s)
      THEN [ok |-> TRUE, data |-> parsed.data]
      ELSE [ok |-> FALSE, data |-> << >>]

\* str(n) of a number below 100
ToStr(n) ==
  IF n < 10 THEN CharAt(Digits, n + 1)
  ELSE CharAt(Digits, (n \div 10) + 1) \o CharAt(Digits, (n % 10) + 1)

(***************************************************************************)
(* retrieve_context of both services.  Examples are numbered from 1; the    *)
(* similarity of a query to the examples of a subject, which the code gets  *)
(* from the fitted vectorizer and matrix, is the list tfidf_matrices keeps  *)
(* for the subject.  Token scores are in units of 1/ScoreUnit.              *)
(***************************************************************************)
\* the characters of [a-zA-Z0-9_] that a lower-cased text can hold
TokenChars ==
  {CharAt("abcdefghijklmnopqrstuvwxyz0123456789_", i) : i \in 1..37}

RECURSIVE TokenEnd(_, _)
\* the last position of the run of token characters of s that holds i
TokenEnd(s, i) ==
  IF i < Len(s) /\ CharAt(s, i + 1) \in TokenChars THEN TokenEnd(s, i + 1)
  ELSE i

\* set(re.findall(r"[a-zA-Z0-9_]+", s)) for a lower-cased s
Tokens(s) ==
  LET starts == {i \in 1..Len(s) :
                   /\ CharAt(s, i) \in TokenChars
                   /\ (i = 1 \/ CharAt(s, i - 1) \notin TokenChars)}
  IN  {SubSeq(s, i, TokenEnd(s, i)) : i \in starts}

RECURSIVE CountFrom(_, _, _)
\* text.count(word): occurrences that do not overlap, from position i on
CountFrom(text, word, i) ==
  LET hits == {j \in i..(Len(text) - Len(word) + 1) :
                 SubSeq(text, j, j + Len(word) - 1) = word}
  IN  IF hits = {} THEN 0
      ELSE 1 + CountFrom(text, word, SetMin(hits) + Len(word))

\* 1.0 is this many score units: every 1 + text.count(word) up to 10 divides it
ScoreUnit == 2520

RECURSIVE SumWeights(_, _)
\* sum(1.0 / (1 + text.count(word)) for word in words)
SumWeights(text, words) ==
  IF words = {} THEN 0
  ELSE LET word == CHOOSE w \in words : TRUE
       IN  ScoreUnit \div (1 + CountFrom(text, word, 1))
             + SumWeights(text, words \ {word})

\* f"{ex.get('prompt','')}\n{ex.get('answer','')}".lower()
ExampleText(ex) == Lower(ex.prompt \o "\n" \o ex.answer)

\* the score of one example in GeminiService's token search; 0 when no
\* token is shared (the example is then not a candidate)
TokenScore(query_tokens, ex) ==
  LET text == ExampleText(ex)
      common == query_tokens \cap Tokens(text)
  IN  SumWeights(text, common)

\* the score of one example in LLMSService's search
OverlapScore(query_tokens, ex) ==
  Cardinality(query_tokens \cap Tokens(ExampleText(ex)))

RECURSIVE Scores(_, _, _)
\* the score of every example of data, in order: weighted for GeminiService,
\* the number of shared tokens for LLMSService
Scores(query_tokens, data, weighted) ==
  IF Len(data) = 0 THEN << >>
  ELSE << IF weighted THEN TokenScore(query_tokens, Head(data))
          ELSE OverlapScore(query_tokens, Head(data)) >>
         \o Scores(query_tokens, Tail(data), weighted)

\* the positions of a in ascending order of value, equal values in order of
\* position (numpy argsort; list.sort is stable)
Argsort(a) ==
  LET Before(m, j) == a[m] < a[j] \/ (a[m] = a[j] /\ m < j)
      Rank(j) == Cardinality({m \in 1..Len(a) : Before(m, j)}) + 1
  IN  [i \in 1..Len(a) |-> CHOOSE j \in 1..Len(a) : Rank(j) = i]

\* a[start:] of Python for a 0-based start that may be negative
SliceFrom(a, start) ==
  LET n == Len(a)
      first == IF start >= 0 THEN Min(start, n)
               ELSE IF n + start > 0 THEN n + start ELSE 0
  IN  SubSeq(a, first + 1, n)

\* a[:stop] of Python for a stop that may be negative
SliceTo(a, stop) ==
  LET n == Len(a)
      last == IF stop >= 0 THEN Min(stop, n)
              ELSE IF n + stop > 0 THEN n + stop ELSE 0
  IN  SubSeq(a, 1, last)

\* a[::-1]
Reversed(a) == [i \in 1..Len(a) |-> a[Len(a) + 1 - i]]

\* f"Q: {ex.get('prompt','').strip()}\nA: {ex.get('answer','').strip()}"
Chunk(ex) == "Q: " \o Strip(ex.prompt) \o "\nA: " \o Strip(ex.answer)

RECURSIVE JoinBlank(_)
\* "\n\n".join(selected)
JoinBlank(selected) ==
  IF Len(selected) = 0 THEN ""
  ELSE IF Len(selected) = 1 THEN selected[1]
  ELSE selected[1] \o "\n\n" \o JoinBlank(Tail(selected))

\* a chunk that does not fit is cut to the remaining room when more than
\* this many characters remain (TF-IDF search only)
MeaningfulSpace == 100

RECURSIVE SelectChunks(_, _, _, _)
\* the loop that fills selected: chunks in order while they fit in
\* max_chars; truncate says whether the first chunk that does not fit is cut
SelectChunks(chunks, total, max_chars, truncate) ==
  IF Len(chunks) = 0 THEN << >>
  ELSE LET chunk == Head(chunks)
       IN  IF total + Len(chunk) > max_chars
           THEN IF truncate /\ max_chars - total > MeaningfulSpace
                THEN << SliceTo(chunk, max_chars - total) \o "..." >>
                ELSE << >>
           ELSE << chunk >> \o SelectChunks(Tail(chunks), total + Len(chunk),
                                            max_chars, truncate)

\* the TF-IDF search of GeminiService.retrieve_context
TfidfSearch(data, similarities, max_chars, top_k) ==
  LET top_indices == Reversed(SliceFrom(Argsort(similarities), 0 - top_k))
      present == SelectSeq(top_indices, LAMBDA idx : idx <= Len(data))
      chunks == [i \in 1..Len(present) |-> Chunk(data[present[i]])]
  IN  JoinBlank(SelectChunks(chunks, 0, max_chars, TRUE))

\* the token search: the examples that share a token with the query, by
\* descending score, the first ones first among equals
TokenSearch(data, scores, max_chars, limit) ==
  LET candidates == SelectSeq([i \in 1..Len(data) |-> i],
                              LAMBDA i : scores[i] > 0)
      order == Argsort([i \in 1..Len(candidates) |-> 0 - scores[candidates[i]]])
      scored == [i \in 1..Len(candidates) |-> data[candidates[order[i]]]]
      top == SliceTo(scored, limit)
      chunks == [i \in 1..Len(top) |-> Chunk(top[i])]
  IN  JoinBlank(SelectChunks(chunks, 0, max_chars, FALSE))

\* faulty variant of retrieve_context: a subject without examples is served
\* from the examples of the first subject that has some
GeminiRetrieveContextOfAnySubject(sets, fitted, matrices, subject_name, query, max_chars, top_k) ==
  LET subject_lower == Lower(subject_name)
      data == IF subject_lower \in DOMAIN sets THEN sets[subject_lower]
              ELSE IF DOMAIN sets = {} THEN << >>
              ELSE sets[CHOOSE d \in DOMAIN sets : TRUE]
      query_tokens == Tokens(Lower(query))
  IN  IF Len(data) = 0 THEN ""
      ELSE TokenSearch(data, Scores(query_tokens, data, TRUE), max_chars, top_k)

\* GeminiService.retrieve_context(subject, prompt, max_chars, top_k) for the
\* given datasets, fitted vectorizers and similarities
GeminiRetrieveContext(sets, fitted, matrices, subject_name, query, max_chars, top_k) ==
  LET subject_lower == Lower(subject_name)
      data == IF subject_lower \in DOMAIN sets THEN sets[subject_lower] ELSE << >>
      query_tokens == Tokens(Lower(query))
  IN  IF Len(data) = 0 THEN ""
      ELSE IF subject_lower \in fitted /\ subject_lower \in DOMAIN matrices
      THEN TfidfSearch(data, matrices[subject_lower], max_chars, top_k)
      ELSE TokenSearch(data, Scores(query_tokens, data, TRUE), max_chars, top_k)

\* the examples LLMSService.retrieve_context looks at, and how many it keeps
ScannedExamples == 2000

KeptExamples == 3

\* LLMSService.retrieve_context(subject, prompt, max_chars)
LLMSRetrieveContext(sets, subject_name, query, max_chars) ==
  LET subject_lower == Lower(subject_name)
      all == IF subject_lower \in DOMAIN sets THEN sets[subject_lower] ELSE << >>
      data == SliceTo(all, ScannedExamples)
      query_tokens == Tokens(Lower(query))
  IN  IF Len(all) = 0 THEN ""
      ELSE TokenSearch(data, Scores(query_tokens, data, FALSE), max_chars,
                       KeptExamples)

(***************************************************************************)
(* analyze_emotion of GeminiService and of EmotionAnalyzer, detect_language *)
(* of GeminiService.  Emotion scores are in halves; a confidence is the     *)
(* fraction num/den.                                                        *)
(***************************************************************************)
\* patterns of GeminiService.analyze_emotion, in the order of the dict
patterns ==
  << [emotion |-> "frustrated",
      keywords |-> {"dont understand", "don't understand", "confused", "stuck",
                    "help", "difficult", "hard", "cant", "can't",
                    "samajh nahi", "mushkil", "masla"}],
     [emotion |-> "confident",
      keywords |-> {"easy", "got it", "understand", "clear", "makes sense",
                    "more", "advanced", "samajh gaya", "theek", "achha"}],
     [emotion |-> "curious",
      keywords |-> {"how", "why", "what", "kaise", "kya", "kyun"}],
     [emotion |-> "positive",
      keywords |-> {"thank", "thanks", "great", "awesome", "shukriya"}] >>

\* EmotionAnalyzer.emotion_patterns, in the order of the dict
emotion_patterns ==
  << [emotion |-> "frustrated",
      keywords |-> {"dont understand", "don't understand", "confused", "stuck",
                    "help", "difficult", "hard", "cant", "can't",
                    "not working", "error", "samajh nahi aya", "mushkil",
                    "masla", "nahi samajh"}],
     [emotion |-> "confident",
      keywords |-> {"easy", "got it", "understand", "clear", "makes sense",
                    "challenge", "more", "advanced", "next level",
                    "samajh gaya", "samajh gayi", "theek hai", "achha"}],
     [emotion |-> "curious",
      keywords |-> {"how", "why", "what", "when", "where", "which", "explain",
                    "tell me", "show me", "kaise", "kya", "kyun"}],
     [emotion |-> "requesting_help",
      keywords |-> {"please", "help", "need", "can you", "could you", "madad",
                    "help karo", "please btao"}],
     [emotion |-> "positive",
      keywords |-> {"thank", "thanks", "great", "awesome", "perfect",
                    "excellent", "shukriya", "bahut achha", "zabardast"}] >>

\* the scores after the keyword loop and the rules, in halves, in the order
\* of the patterns; svc is "gemini" or "analyzer"
EmotionScores(svc, text) ==
  LET text_lower == Lower(text)
      table == IF svc = "gemini" THEN patterns ELSE emotion_patterns
      error_words == IF svc = "gemini" THEN {"error", "bug", "wrong", "issue"}
                     ELSE {"error", "bug", "wrong", "issue", "problem"}
      Matches(i) ==
        Cardinality({w \in table[i].keywords : Contains(text_lower, w)})
      Rules(emotion) ==
        (IF emotion = "curious" /\ Contains(text, "?") THEN 2 ELSE 0)
        + (IF /\ svc = "analyzer"
              /\ emotion \in {"frustrated", "confident"}
              /\ Contains(text, "!")
           THEN 1 ELSE 0)
        + (IF emotion = "frustrated" /\ ContainsAny(text_lower, error_words)
           THEN 2 ELSE 0)
  IN  [i \in 1..Len(table) |-> 2 * Matches(i) + Rules(table[i].emotion)]

RECURSIVE SumSeq(_)
\* sum(scores.values())
SumSeq(a) == IF Len(a) = 0 THEN 0 ELSE Head(a) + SumSeq(Tail(a))

\* faulty variant of analyze_emotion: the confidence is the primary score
\* out of the number of keywords and rules that could have fired for it
AnalyzeEmotionOfPossible(svc, text) ==
  LET table == IF svc = "gemini" THEN patterns ELSE emotion_patterns
      scores == EmotionScores(svc, text)
      top == CHOOSE i \in 1..Len(scores) :
               /\ \A j \in 1..Len(scores) : scores[j] <= scores[i]
               /\ \A j \in 1..(i - 1) : scores[j] < scores[i]
  IN  IF scores[top] = 0
      THEN [emotion |-> "neutral", confidence |-> [num |-> 1, den |-> 2]]
      ELSE [emotion |-> table[top].emotion,
            confidence |-> [num |-> scores[top],
                            den |-> 2 * Cardinality(table[top].keywords) + 4]]

\* analyze_emotion(text): (emotion, confidence)
AnalyzeEmotion(svc, text) ==
  LET table == IF svc = "gemini" THEN patterns ELSE emotion_patterns
      scores == EmotionScores(svc, text)
      \* max(scores, key=scores.get): the first category with the top score
      primary == CHOOSE i \in 1..Len(scores) :
                   /\ \A j \in 1..Len(scores) : scores[j] <= scores[i]
                   /\ \A j \in 1..(i - 1) : scores[j] < scores[i]
      total == SumSeq(scores)
  IN  IF scores[primary] = 0
      THEN [emotion |-> "neutral", confidence |-> [num |-> 1, den |-> 2]]
      ELSE [emotion |-> table[primary].emotion,
            confidence |-> IF total > 0
                           THEN [num |-> scores[primary], den |-> total]
                           ELSE [num |-> 1, den |-> 2]]

roman_urdu_markers ==
  {"kya", "kyun", "kaise", "kese", "krdo", "kerdo", "kro", "kero",
   "mujhe", "mujhy", "mera", "meri", "mere", "ap", "aap", "apko", "apka",
   "tum", "tumhe", "tumhara",
   "hain", "hun", "ho", "hy", "hai", "hoon",
   "kia", "kerna", "krna", "karna", "kren", "karen",
   "sahi", "galat", "theek", "thik",
   "masla", "mushkil",
   "samjha", "samjho", "samajh",
   "btao", "batao", "bata", "btayen", "bataye",
   "seekho", "seekhna", "sikho", "sikhna",
   "tafsil", "tafseel",
   "matlab", "mtlb", "yani",
   "achha", "acha",
   "chahiye", "chaiye", "chaye",
   "sy", "se", "ka", "ki", "ko", "yr", "yar", "dekh", "dekho",
   "anlyze", "analyze", "ker"}

\* s.split(): the words of s, in order
Split(s) ==
  LET starts == WordStarts(s)
      EndOf(i) == SetMin({j \in i..Len(s) :
                            j = Len(s) \/ CharAt(s, j + 1) \in Whitespace})
      Nth(n) == CHOOSE i \in starts : Cardinality({m \in starts : m < i}) = n - 1
  IN  [n \in 1..Cardinality(starts) |-> SubSeq(s, Nth(n), EndOf(Nth(n)))]

\* the words of the prompt that are a marker or start with one
RomanCount(words) ==
  Cardinality({n \in 1..Len(words) :
                 \E marker \in roman_urdu_markers :
                   /\ Len(words[n]) >= Len(marker)
                   /\ SubSeq(words[n], 1, Len(marker)) = marker})

\* faulty variant of detect_language: more than the threshold is required
DetectLanguageAbove(prompt) ==
  LET words == Split(Strip(Lower(prompt)))
      roman_count == RomanCount(words)
  IN  IF roman_count > 1 /\ 100 * roman_count > 15 * Len(words)
      THEN "Roman Urdu" ELSE "English"

\* detect_language(prompt); roman_count >= max(1, len(words) * 0.15) is
\* compared in exact arithmetic
DetectLanguage(prompt) ==
  LET words == Split(Strip(Lower(prompt)))
      roman_count == RomanCount(words)
  IN  IF roman_count >= 1 /\ 100 * roman_count >= 15 * Len(words)
      THEN "Roman Urdu" ELSE "English"

(***************************************************************************)
(* Inputs.                                                                 *)
(***************************************************************************)
\* no helper call has been made
NoCall == [fn |-> "none"]

\* GeminiService.datasets as load_datasets leaves it: the subjects that have
\* a non-empty example file
LoadedDatasets ==
  [s \in {"coding"} |->
     << [prompt |-> "What is a loop?", answer |-> "A loop repeats a block."],
        [prompt |-> "What is a variable?", answer |-> "A name for a value."],
        [prompt |-> "Define a function", answer |-> "Use def in a loop."] >>]

\* what load_datasets may leave: no example file at all, or the coding file
DatasetChoices == {<< >>, LoadedDatasets}

\* similarities of a query to the examples of a subject, in tenths; the last
\* one is a cached matrix with one row more than there are examples
SimilarityChoices == {<<0, 0, 0>>, <<1, 3, 2>>, <<2, 2, 0>>, <<1, 0, 2, 3>>}

\* arguments of retrieve_context
RetrievalSubjects == {"Coding", "math", ""}

Queries == {"What is a loop?", "zzz"}

MaxCharsArgs == {0, 50, 1500}

TopKArgs == {-1, 0, 1, 3}

\* a corpus with a block of 45 characters and a block of 142 characters
BudgetDatasets ==
  [s \in {"coding"} |->
     << [prompt |-> "What is a loop?", answer |-> "A loop repeats a block."],
        [prompt |-> "What is a loop invariant?",
         answer |-> "Something true before the loop, kept true by every turn of the loop body, so it is still true when the loop ends."] >>]

\* similarities of a query to its two examples, in tenths
BudgetSimilarities == {<<3, 1>>, <<1, 3>>}

\* max_chars arguments around the lengths of its blocks
BudgetMaxChars == {40, 120, 160, 1500}

BudgetTopK == {1, 2, 3}

\* texts given to analyze_emotion
EmotionTexts ==
  {"", "ok", "I am stuck, help!", "why?", "thanks, got it", "Wow!",
   "there is a problem", "How easy"}

\* texts given to detect_language
LanguageTexts ==
  {"", "kya hal hai bhai kaise ho", "How are you", "what is a loop in python",
   "a b c d e f kya", " KYA ", "Mujhe loops samjhao",
   "ka ki ko a b c d e f g h i j k l m n o p q",
   "ka ki a b c d e f g h i j k l m n o p q r"}

\* largest max_retries argument tried (the smallest is -1: the loop body never runs)
MaxRetriesArg == 2

\* the default of the max_retries parameter, used by every router
DefaultMaxRetries == 2

\* the expansion pass is tried below this many words
EnhanceBelowWords == 80

\* prompts given to generate_response directly
Prompts ==
  {"hi", "Hello!", " ASL .", "Salam", "! hi !", "hey there", "Thanks!",
   "How to HACK wifi", "What is a variable?", "explain loops",
   "tell me about physics"}

\* subject arguments
Subjects == {"coding", "general", "history"}

\* messages of the exceptions a generation call may raise
ErrorMessages ==
  {"429 Too Many Requests", "Quota exceeded for metric", "quota",
   "500 Internal Server Error", ""}

LongAnswer == Repeat("w ", EnhanceBelowWords)

\* texts a primary generation call may return
ModelTexts ==
  {"", " \n ", "85", "You are a tutor.\nInstructions: be brief",
   "Context: loops\n\nA loop repeats a block.\nyou are done",
   "It repeats. It repeats.  Done!", LongAnswer}

\* texts the expansion call may return
EnhancedTexts ==
  {"", "1. A loop repeats. 2. Use for.", "Step 1: think", "Step 1: think hard"}

\* random.uniform(0, 1) in tenths of a time unit
JitterTenths == {0, 9}

\* the behaviours of the generation capability while a request handler runs
ChatPrompts == {"How to HACK wifi", "explain loops"}

HandlerTexts == {"", "70"}

HandlerErrors == {"429 Too Many Requests", "500 Internal Server Error"}

HandlerJitter == {5}

HandlerEnhanced == {"Step 1: read the answer. Step 2: compare."}

\* number of submit-answers requests served
MaxSubmits == 1

\* number of update-progress requests served
MaxUpdates == 1

\* number of answers in one submission
MaxAnswers == 1

\* progress scalars are kept in units of 1/ProgressScale, which makes
\* (old + score) / 2 exact for MaxUpdates halvings
ProgressScale == Pow2(MaxUpdates)

CurrentUser == 1

OtherUser == 2

\* points of a generated question (generate_quiz_questions)
PointsFor(difficulty) ==
  IF difficulty = "beginner" THEN 10
  ELSE IF difficulty = "intermediate" THEN 15 ELSE 20

\* points of the placeholder question that replaces a failed generation
PlaceholderPoints == 10

\* the quizzes in the database: quiz 1 of the current user, quiz 2 of another
InitialQuizzes ==
  [q \in {1, 2} |->
     [user_id    |-> IF q = 1 THEN CurrentUser ELSE OtherUser,
      subject    |-> IF q = 1 THEN "math" ELSE "coding",
      difficulty |-> "advanced",
      status     |-> "active"]]

\* None in a column or a dict
NoneValue == "None"

\* their questions: a generated multiple-choice question and a placeholder
\* open-ended question of quiz 1, a multiple-choice question of quiz 2
InitialQuestions ==
  << [id |-> 1, quiz_id |-> 1, question_text |-> "Which formula is used for area?",
      question_type |-> "multiple_choice", options |-> "Option A, Option B",
      correct_answer |-> "Option A", explanation |-> "Area is width times height",
      points |-> PointsFor("advanced"), order |-> 1],
     [id |-> 2, quiz_id |-> 1, question_text |-> "Sample math question 2?",
      question_type |-> "code_completion", options |-> NoneValue,
      correct_answer |-> "Sample answer",
      explanation |-> "This is a sample explanation",
      points |-> PlaceholderPoints, order |-> 2],
     [id |-> 3, quiz_id |-> 2, question_text |-> "What does this function do: f",
      question_type |-> "multiple_choice", options |-> "Option A, Option B",
      correct_answer |-> "Option A", explanation |-> NoneValue,
      points |-> PointsFor("advanced"), order |-> 1] >>

\* values the columns correct_answer and explanation of a question may hold
CorrectAnswers == {"Option A", "Option B"}
Explanations == {NoneValue, "Area is width times height"}

\* the tables quiz_questions that differ from InitialQuestions only in the
\* columns correct_answer and explanation
QuestionVariants ==
  {[i \in 1..Len(InitialQuestions) |->
      [InitialQuestions[i] EXCEPT !.correct_answer = v[i][1],
                                  !.explanation = v[i][2]]] :
     v \in [1..Len(InitialQuestions) -> CorrectAnswers \X Explanations]}

\* QuizAnswer bodies a learner may submit
QuizAnswers ==
  {[question_id |-> 1, user_answer |-> " option a ", time_taken |-> 30],
   [question_id |-> 1, user_answer |-> "Option B", time_taken |-> 30],
   [question_id |-> 2, user_answer |-> "An answer", time_taken |-> 45],
   [question_id |-> 3, user_answer |-> "Option A", time_taken |-> 0]}

RECURSIVE SeqsUpTo(_, _)
\* the sequences over S of length at most n
SeqsUpTo(S, n) ==
  IF n = 0 THEN {<< >>}
  ELSE LET shorter == SeqsUpTo(S, n - 1)
       IN  shorter \cup {Append(q, x) : q \in shorter, x \in S}

\* QuizSubmit bodies
Submissions ==
  [quiz_id : {1, 2, 9}, answers : SeqsUpTo(QuizAnswers, MaxAnswers)]

\* ProgressUpdate bodies
ProgressUpdates ==
  {[subject |-> "math", user_answer |-> "4", correct_answer |-> "4"],
   [subject |-> "coding", user_answer |-> "a for loop", correct_answer |-> "for"]}

\* the subjects a stored progress map may hold
ProgressSubjects == {"coding", "math", "ielts"}

\* stored progress scalars, in units of 1/ProgressScale: the values at and
\* next to the thresholds 30, 50, 60 and 80
ProgressValues ==
  {0, 30 * ProgressScale - 1, 30 * ProgressScale, 50 * ProgressScale,
   50 * ProgressScale + 1, 60 * ProgressScale - 1, 60 * ProgressScale,
   80 * ProgressScale - 1, 80 * ProgressScale, 100 * ProgressScale}

\* stored progress maps
ProgressMaps ==
  UNION {[keys -> ProgressValues] : keys \in SUBSET ProgressSubjects}

\* the orders in which a dict with these keys may hold them
KeyOrders(keys) ==
  {order \in [1..Cardinality(keys) -> keys] :
     \A i, j \in 1..Cardinality(keys) : i # j => order[i] # order[j]}

\* requests the server process handles at the same time
MaxRequests == 2

Requests == 1..MaxRequests

\* the endpoints of the concurrent requests: ask_qa is declared "async def"
\* and runs on the event loop thread, the others are declared "def" and run
\* in a worker thread
Endpoints == {"ask_qa", "add_message", "get_quiz_questions"}

AsyncEndpoints == {"ask_qa"}

\* the generate_response calls a handler makes: the session name and the
\* answer for a first message, the answer for a later one; none to fetch
\* questions
GenerationCalls(endpoint) ==
  IF endpoint \in {"ask_qa", "add_message"} THEN {1, 2} ELSE {0}

\* no request
NoRequest == [endpoint |-> "none", at |-> "absent", calls |-> 0, attempt |-> 0]

\* rows of quiz_sessions up to which a quiz that is already completed is
\* submitted again
MaxResubmits == 4

\* the tables after quiz 1 was submitted once with the right answer to its
\* first question: the quiz is completed
CompletedQuizzes == [InitialQuizzes EXCEPT ![1].status = "completed"]

\* QuizSubmit bodies for quiz 1 with multiple-choice answers
Resubmissions ==
  [quiz_id : {1},
   answers : SeqsUpTo({a \in QuizAnswers : a.question_id \in {1, 3}},
                      MaxAnswers)]

\* number of quizzes created
MaxCreates == 1

\* largest total_questions of a QuizCreate body
MaxQuestions == 2

\* QuizCreate bodies
QuizCreates ==
  [subject : {"math", "hacking"}, difficulty : {"auto", "advanced"},
   quiz_type : {"mixed", "fill_blank"}, total_questions : 0..MaxQuestions]

\* replies of the generation capability to an authoring prompt: a question
\* in the requested format, an object without the requested members, a
\* block that is no JSON, and prose
AuthorTexts ==
  {"{\"question_text\": \"What is 2+2?\", \"question_type\": \"fill_blank\", \"correct_answer\": \"4\", \"explanation\": \"2+2 is 4\"}",
   "Sure! {\"question\": \"What is 2+2?\"}",
   "Here you go: {question_text: 2+2}",
   "I cannot write a question."}

AuthorErrors == {"429 Too Many Requests", "503 Service Unavailable"}

\* texts of the expansion call for an authoring prompt
AuthorEnhanced ==
  {"", "1. Read the question about sums slowly. 2. Add the two numbers. 3. Write the result down."}

(***************************************************************************)
(* State.                                                                  *)
(***************************************************************************)
VARIABLES
  handler,       \* the request being served: "none", "direct", ...
  service,       \* the class whose generate_response runs: "gemini", "llms"
  pc,            \* position in generate_response
  prompt,        \* generate_response arguments
  subject,
  max_retries,
  attempt,       \* loop variable of the retry loop
  is_detailed,
  cleaned,
  failures,      \* str(e) of the exceptions of the primary calls, in order
  result,        \* the value generate_response returned
  outcome,       \* the return statement that produced it
  genCalls,      \* primary model.generate_content calls made by this call
  enhanceCalls,  \* expansion model.generate_content calls made by this call
  waits,         \* the time.sleep(wait_time) calls made, in tenths
  retrieved      \* retrieve_context was called

genVars ==
  <<service, pc, prompt, subject, max_retries, attempt, is_detailed, cleaned,
    failures, result, outcome, genCalls, enhanceCalls, waits, retrieved>>

VARIABLES
  quizzes,          \* table quizzes: id -> [user_id, subject, difficulty, status]
  quiz_questions,   \* table quiz_questions, in id order
  progress,         \* current_user.progress: subject -> scalar, in 1/ProgressScale
  session_rows,     \* number of rows of table quiz_sessions
  attempt_rows,     \* number of rows of table quiz_attempts
  updates,          \* number of update-progress requests served
  hpc,              \* position of the request handler
  submission,       \* submit_quiz: the QuizSubmit body
  k,                \* calculate_quiz_score: index of the answer being scored
  total_score,      \* calculate_quiz_score: in hundredths of a point
  max_score,
  detailed_results,
  llm_calls,        \* llm.generate_response calls made by the handler
  body,             \* update_progress: the ProgressUpdate body
  committed,        \* rows written by the db.commit() of the request being answered
  response          \* the response being returned

dbVars == <<quizzes, quiz_questions, progress, session_rows, attempt_rows, updates>>

\* the handler's variables other than its position
handlerVarsButPc ==
  <<submission, k, total_score, max_score, detailed_results, llm_calls, body,
    committed, response>>

handlerVars ==
  <<hpc, submission, k, total_score, max_score, detailed_results, llm_calls,
    body, committed, response>>

VARIABLES
  quiz_data,        \* create_quiz: the QuizCreate body
  questions_data,   \* generate_quiz_questions: the list questions being built
  qi,               \* generate_quiz_questions: loop variable i
  item_type         \* generate_quiz_questions: question_type of the iteration

authorVars == <<quiz_data, questions_data, qi, item_type>>

VARIABLES
  datasets,         \* GeminiService.datasets: subject -> list of examples
  vectorizers,      \* subjects that have a fitted vectorizer (not None)
  tfidf_matrices,   \* per subject and query, the cosine similarity of each example
  call,             \* the helper call made last: function, arguments, result
  last_retrieval    \* the retrieve_context call made before it

ragVars == <<datasets, vectorizers, tfidf_matrices>>

helperVars == <<call, last_retrieval>>

VARIABLE
  requested_quiz    \* get_quiz_questions: the path parameter quiz_id

fetchVars == <<requested_quiz>>

VARIABLES
  requests,         \* the requests of the server process: endpoint, position, ...
  loop              \* the request whose handler runs on the event loop thread, or 0

serverVars == <<requests, loop>>

extraVars == <<authorVars, ragVars, helperVars, fetchVars, serverVars>>

\* the state of the callers of generate_response
callerVars == <<handler, dbVars, handlerVars, extraVars>>

vars == <<callerVars, genVars>>

(***************************************************************************)
(* GeminiService.generate_response as a step machine.                      *)
(***************************************************************************)
GenInit ==
  /\ service = "none"
  /\ pc = "idle"
  /\ prompt = ""
  /\ subject = ""
  /\ max_retries = 0
  /\ attempt = 0
  /\ is_detailed = FALSE
  /\ cleaned = ""
  /\ failures = << >>
  /\ result = ""
  /\ outcome = "none"
  /\ genCalls = 0
  /\ enhanceCalls = 0
  /\ waits = << >>
  /\ retrieved = FALSE

\* the caller has taken the returned value; the call's frame is gone
GenReset ==
  /\ service' = "none"
  /\ pc' = "idle"
  /\ prompt' = ""
  /\ subject' = ""
  /\ max_retries' = 0
  /\ attempt' = 0
  /\ is_detailed' = FALSE
  /\ cleaned' = ""
  /\ failures' = << >>
  /\ result' = ""
  /\ outcome' = "none"
  /\ genCalls' = 0
  /\ enhanceCalls' = 0
  /\ waits' = << >>
  /\ retrieved' = FALSE

\* return text
Return(text, how) ==
  /\ pc' = "returned"
  /\ result' = text
  /\ outcome' = how

\* faulty variant of the final return: cleaned is returned even when empty
ReturnCleanedUnchecked(c) == Return(c, "success")

\* return cleaned if cleaned else "I apologize, ..."
ReturnCleaned(c) ==
  IF c # "" THEN Return(c, "success")
  ELSE Return(EmptyOutputMessage, "empty_output")

\* generate_response(p, s, "auto", mr) up to the first generation call
generate_response(p, s, mr) ==
  /\ pc = "idle"
  /\ service' = "gemini"
  /\ prompt' = p
  /\ subject' = s
  /\ max_retries' = mr
  /\ attempt' = 0
  /\ UNCHANGED <<cleaned, failures, genCalls, enhanceCalls, waits>>
  /\ IF ~is_safe(p)
     THEN /\ Return(RefusalMessage, "refused")
          /\ UNCHANGED <<is_detailed, retrieved>>
     ELSE IF IsGreeting(p)
     THEN /\ Return(GreetingReply(p), "greeting")
          /\ UNCHANGED <<is_detailed, retrieved>>
     ELSE /\ retrieved' = TRUE
          /\ is_detailed' = IsDetailed(p)
          /\ IF mr + 1 > 0
             THEN /\ pc' = "attempting"
                  /\ UNCHANGED <<result, outcome>>
             ELSE Return(LoopExitMessage, "loop_skipped")

\* the primary model.generate_content call returns text
AttemptReturns(text) ==
  /\ pc = "attempting"
  /\ genCalls' = genCalls + 1
  /\ LET c == CleanResponse(text)
     IN  /\ cleaned' = c
         /\ IF is_detailed /\ WordCount(c) < EnhanceBelowWords
            THEN /\ pc' = "enhancing"
                 /\ UNCHANGED <<result, outcome>>
            ELSE ReturnCleaned(c)
  /\ UNCHANGED callerVars
  /\ UNCHANGED <<service, prompt, subject, max_retries, attempt, is_detailed,
                 failures, enhanceCalls, waits, retrieved>>

\* faulty variant of the except branch: every failure is retried like a
\* quota failure
AttemptRaisesRetryingAll(msg) ==
  /\ pc = "attempting"
  /\ genCalls' = genCalls + 1
  /\ failures' = Append(failures, msg)
  /\ IF attempt = max_retries
     THEN \E r \in get_fallback_response(prompt, subject) :
            Return(r, "exhausted")
     ELSE /\ pc' = "sleeping"
          /\ UNCHANGED <<result, outcome>>
  /\ UNCHANGED callerVars
  /\ UNCHANGED <<service, prompt, subject, max_retries, attempt, is_detailed,
                 cleaned, enhanceCalls, waits, retrieved>>

\* the primary call (or reading its text) raises an exception with message msg
AttemptRaises(msg) ==
  /\ pc = "attempting"
  /\ genCalls' = genCalls + 1
  /\ failures' = Append(failures, msg)
  /\ IF is_quota_exceeded_error(msg)
     THEN IF attempt = max_retries
          THEN \E r \in get_fallback_response(prompt, subject) :
                 Return(r, "exhausted")
          ELSE /\ pc' = "sleeping"
               /\ UNCHANGED <<result, outcome>>
     ELSE Return(HardFailureMessage(msg), "hard_failure")
  /\ UNCHANGED callerVars
  /\ UNCHANGED <<service, prompt, subject, max_retries, attempt, is_detailed,
                 cleaned, enhanceCalls, waits, retrieved>>

\* faulty variant of the backoff: the wait does not grow with the attempt
BackoffFlat(jitter) ==
  /\ pc = "sleeping"
  /\ waits' = Append(waits, 10 + jitter)
  /\ attempt' = attempt + 1
  /\ pc' = "attempting"
  /\ UNCHANGED callerVars
  /\ UNCHANGED <<service, prompt, subject, max_retries, is_detailed, cleaned,
                 failures, result, outcome, genCalls, enhanceCalls, retrieved>>

\* time.sleep((2 ** attempt) + random.uniform(0, 1)); continue
Backoff(jitter) ==
  /\ pc = "sleeping"
  /\ waits' = Append(waits, 10 * Pow2(attempt) + jitter)
  /\ attempt' = attempt + 1
  /\ pc' = "attempting"
  /\ UNCHANGED callerVars
  /\ UNCHANGED <<service, prompt, subject, max_retries, is_detailed, cleaned,
                 failures, result, outcome, genCalls, enhanceCalls, retrieved>>

\* the expansion call returns text
EnhanceReturns(text) ==
  /\ pc = "enhancing"
  /\ enhanceCalls' = enhanceCalls + 1
  /\ LET enhanced_text == Strip(text)
         c == IF AdoptEnhanced(enhanced_text, cleaned)
              THEN enhanced_text ELSE cleaned
     IN  /\ cleaned' = c
         /\ ReturnCleaned(c)
  /\ UNCHANGED callerVars
  /\ UNCHANGED <<service, prompt, subject, max_retries, attempt, is_detailed,
                 failures, genCalls, waits, retrieved>>

\* the expansion call raises: except Exception: pass
EnhanceRaises ==
  /\ pc = "enhancing"
  /\ enhanceCalls' = enhanceCalls + 1
  /\ ReturnCleaned(cleaned)
  /\ UNCHANGED callerVars
  /\ UNCHANGED <<service, prompt, subject, max_retries, attempt, is_detailed,
                 cleaned, failures, genCalls, waits, retrieved>>

(***************************************************************************)
(* LLMSService.generate_response as a step machine.                        *)
(***************************************************************************)
\* generate_response(p, s, "auto") up to the model call
llms_generate_response(p, s) ==
  /\ pc = "idle"
  /\ service' = "llms"
  /\ prompt' = p
  /\ subject' = s
  /\ UNCHANGED <<max_retries, attempt, cleaned, failures, genCalls,
                 enhanceCalls, waits>>
  /\ IF ~llms_is_safe(p)
     THEN /\ Return(LLMSRefusalMessage, "refused")
          /\ UNCHANGED <<is_detailed, retrieved>>
     ELSE IF LLMSIsGreeting(p)
     THEN /\ Return(LLMSGreetingReply(p), "greeting")
          /\ UNCHANGED <<is_detailed, retrieved>>
     ELSE /\ retrieved' = TRUE
          /\ is_detailed' = LLMSIsDetailed(p)
          /\ pc' = "llms_generating"
          /\ UNCHANGED <<result, outcome>>

\* the model call returns text
LLMSReturns(text) ==
  /\ pc = "llms_generating"
  /\ genCalls' = genCalls + 1
  /\ LET final == LLMSFinal(text)
     IN  /\ cleaned' = final
         /\ IF is_detailed /\ WordCount(final) < RefineBelowWords
            THEN /\ pc' = "llms_refining"
                 /\ UNCHANGED <<result, outcome>>
            ELSE Return(final, "success")
  /\ UNCHANGED callerVars
  /\ UNCHANGED <<service, prompt, subject, max_retries, attempt, is_detailed,
                 failures, enhanceCalls, waits, retrieved>>

\* the model call raises: nothing catches it in generate_response
LLMSRaises(msg) ==
  /\ pc = "llms_generating"
  /\ genCalls' = genCalls + 1
  /\ failures' = Append(failures, msg)
  /\ pc' = "raised"
  /\ outcome' = "raised"
  /\ UNCHANGED callerVars
  /\ UNCHANGED <<service, prompt, subject, max_retries, attempt, is_detailed,
                 cleaned, result, enhanceCalls, waits, retrieved>>

\* the refinement call returns text
LLMSRefineReturns(text) ==
  /\ pc = "llms_refining"
  /\ enhanceCalls' = enhanceCalls + 1
  /\ LET refined == Strip(text)
         final == IF AdoptEnhanced(refined, cleaned) THEN refined ELSE cleaned
     IN  /\ cleaned' = final
         /\ Return(final, "success")
  /\ UNCHANGED callerVars
  /\ UNCHANGED <<service, prompt, subject, max_retries, attempt, is_detailed,
                 failures, genCalls, waits, retrieved>>

\* the refinement call raises: except Exception: pass
LLMSRefineRaises ==
  /\ pc = "llms_refining"
  /\ enhanceCalls' = enhanceCalls + 1
  /\ Return(cleaned, "success")
  /\ UNCHANGED callerVars
  /\ UNCHANGED <<service, prompt, subject, max_retries, attempt, is_detailed,
                 cleaned, failures, genCalls, waits, retrieved>>

(***************************************************************************)
(* A direct call of generate_response (scripts, chat).                     *)
(***************************************************************************)
CallDirect(p, s, mr) ==
  /\ UNCHANGED extraVars
  /\ handler = "none"
  /\ handler' = "direct"
  /\ generate_response(p, s, mr)
  /\ UNCHANGED <<dbVars, handlerVars>>

CallDirectLLMS(p, s) ==
  /\ UNCHANGED extraVars
  /\ handler = "none"
  /\ handler' = "direct"
  /\ llms_generate_response(p, s)
  /\ UNCHANGED <<dbVars, handlerVars>>

\* the caller has the returned value, or the exception
DirectReturn ==
  /\ UNCHANGED extraVars
  /\ handler = "direct"
  /\ pc \in {"returned", "raised"}
  /\ handler' = "none"
  /\ GenReset
  /\ UNCHANGED <<dbVars, handlerVars>>

(***************************************************************************)
(* routers/quiz.py: calculate_quiz_score and submit_quiz.                  *)
(***************************************************************************)
NoQuestion == [id |-> 0]

NoResponse == [status |-> 0]

NoCommit == [quiz_sessions |-> << >>, quiz_attempts |-> << >>]

NoSubmission == [quiz_id |-> 0, answers |-> << >>]

NoBody == [subject |-> "", user_answer |-> "", correct_answer |-> ""]

\* faulty variant of the lookup: the owner of the quiz is not compared
QuizFoundOfAnyUser(quiz_id) ==
  quiz_id \in DOMAIN quizzes

\* db.query(Quiz).filter(Quiz.id == quiz_id, Quiz.user_id == current_user.id).first()
QuizFound(quiz_id) ==
  quiz_id \in DOMAIN quizzes /\ quizzes[quiz_id].user_id = CurrentUser

\* faulty variant of the query: the questions of every quiz
QuestionsOfAnyQuiz(quiz_id) ==
  quiz_questions

\* db.query(QuizQuestion).filter(QuizQuestion.quiz_id == quiz_id).all()
QuestionsOfQuiz(quiz_id) ==
  SelectSeq(quiz_questions, LAMBDA q : q.quiz_id = quiz_id)

\* next((q for q in questions if q.id == question_id), None)
FindQuestion(questions, question_id) ==
  LET hits == {i \in 1..Len(questions) : questions[i].id = question_id}
  IN  IF hits = {} THEN NoQuestion ELSE questions[SetMin(hits)]

\* the prompt of generate_quiz_questions for one question
authoring_prompt(difficulty, question_type, subject_name, template) ==
  "\n        Generate a "
  \o difficulty
  \o " level "
  \o question_type
  \o " question for "
  \o subject_name
  \o " based on this template: \""
  \o template
  \o "\"\n        \n        Requirements:\n        - Make it educational and clear\n        - Include specific examples or code snippets if applicable\n        - Ensure it tests understanding, not just memorization\n        - Provide 4 options for multiple choice questions\n        - Include the correct answer and explanation\n        \n        Format the response as JSON:\n        {\n            \"question_text\": \"The actual question\",\n            \"question_type\": \""
  \o question_type
  \o "\",\n            \"options\": [\"option1\", \"option2\", \"option3\", \"option4\"] (only for multiple_choice),\n            \"correct_answer\": \"The correct answer\",\n            \"explanation\": \"Why this answer is correct\"\n        }\n        "

\* the evaluation prompt of calculate_quiz_score
evaluation_prompt(question_text, user_answer, correct_answer) ==
  "\n            Evaluate this student answer for the question: \""
  \o question_text
  \o "\"\n            \n            Student Answer: \""
  \o user_answer
  \o "\"\n            Correct Answer: \""
  \o correct_answer
  \o "\"\n            \n            Rate the answer on a scale of 0-100 based on:\n            - Correctness (40%)\n            - Completeness (30%)\n            - Clarity (20%)\n            - Understanding demonstrated (10%)\n            \n            Respond with just a number between 0-100.\n            "

\* faulty variant of the multiple-choice test: the answers are compared as
\* submitted
MultipleChoiceCorrectVerbatim(user_answer, correct_answer) ==
  user_answer = correct_answer

\* answer.user_answer.strip().lower() == question.correct_answer.strip().lower()
MultipleChoiceCorrect(user_answer, correct_answer) ==
  Lower(Strip(user_answer)) = Lower(Strip(correct_answer))

\* score = int(score_match.group(0)) if score_match else 50
ScoreOf(text) == IF HasInt(text) THEN FirstInt(text) ELSE 50

\* faulty variant of the percentage: the division is not guarded
PercentageUnguarded(total, max) == [num |-> total, den |-> max]

\* (total_score / max_score * 100) if max_score > 0 else 0, as the fraction
\* num/den; den = 0 stands for the ZeroDivisionError of a division by zero
Percentage(total, max) ==
  IF max > 0 THEN [num |-> total, den |-> max] ELSE [num |-> 0, den |-> 1]

\* percentage >= n
PercentageAtLeast(pct, n) == pct.num >= n * pct.den

\* faulty variant of the progress increase: the middle tier is missing
ProgressIncreaseTwoTiers(pct) ==
  IF PercentageAtLeast(pct, 80) THEN 5 ELSE 1

\* the progress increase of submit_quiz
ProgressIncrease(pct) ==
  IF PercentageAtLeast(pct, 80) THEN 5
  ELSE IF PercentageAtLeast(pct, 60) THEN 3 ELSE 1

\* current_user.progress.get(subject, 0)
ProgressGet(subject_name) ==
  IF subject_name \in DOMAIN progress THEN progress[subject_name] ELSE 0

\* progress with progress[subject_name] = value
ProgressSet(subject_name, value) ==
  [s \in DOMAIN progress \cup {subject_name} |->
     IF s = subject_name THEN value ELSE progress[s]]

DetailedResult(question, answer, is_correct, points_earned) ==
  [question_id    |-> question.id,
   question_text  |-> question.question_text,
   user_answer    |-> answer.user_answer,
   correct_answer |-> question.correct_answer,
   is_correct     |-> is_correct,
   points_earned  |-> points_earned,
   max_points     |-> question.points,
   time_taken     |-> answer.time_taken]

\* next((r for r in detailed_results if r["question_id"] == question_id), None)
FirstResultFor(results, question_id) ==
  results[SetMin({i \in 1..Len(results) : results[i].question_id = question_id})]

RECURSIVE SumTimeTaken(_)
\* sum(answer.time_taken for answer in answers)
SumTimeTaken(answers) ==
  IF Len(answers) = 0 THEN 0
  ELSE Head(answers).time_taken + SumTimeTaken(Tail(answers))

\* the ids get_quiz_questions is called with: the user's quiz, another
\* user's quiz, no quiz
FetchIds == {1, 2, 9}

\* faulty variant of the entry: the correct answer is sent along
QuestionPayloadWithAnswer(q) ==
  [id |-> q.id, question_text |-> q.question_text,
   question_type |-> q.question_type, options |-> q.options,
   points |-> q.points, order |-> q.order,
   correct_answer |-> q.correct_answer]

\* one entry of "questions" in the response of get_quiz_questions
QuestionPayload(q) ==
  [id |-> q.id, question_text |-> q.question_text,
   question_type |-> q.question_type, options |-> q.options,
   points |-> q.points, order |-> q.order]

RECURSIVE OrderByOrder(_)
\* .order_by(QuizQuestion.order) of rows
OrderByOrder(rows) ==
  IF Len(rows) = 0 THEN << >>
  ELSE LET least == SetMin({rows[i].order : i \in 1..Len(rows)})
           first == SetMin({i \in 1..Len(rows) : rows[i].order = least})
       IN  << rows[first] >>
             \o OrderByOrder(SubSeq(rows, 1, first - 1)
                              \o SubSeq(rows, first + 1, Len(rows)))

\* "questions" in the response of get_quiz_questions for the table
FetchedQuestions(table, quiz_id) ==
  LET questions ==
        OrderByOrder(SelectSeq(table, LAMBDA q : q.quiz_id = quiz_id))
  IN  [i \in 1..Len(questions) |-> QuestionPayload(questions[i])]

\* get_quiz_questions
GetQuizQuestions(id) ==
  /\ handler = "none"
  /\ handler' = "get_quiz_questions"
  /\ hpc' = "responding"
  /\ requested_quiz' = id
  /\ response' =
       IF ~QuizFound(id)
       THEN [status |-> 404, detail |-> "Quiz not found"]
       ELSE [status |-> 200, quiz_id |-> id,
             subject |-> quizzes[id].subject,
             difficulty |-> quizzes[id].difficulty,
             questions |-> FetchedQuestions(quiz_questions, id)]
  /\ UNCHANGED <<dbVars, genVars, submission, k, total_score, max_score,
                 detailed_results, llm_calls, body, committed, authorVars,
                 ragVars, helperVars, serverVars>>

\* submit_quiz: the quiz is absent or belongs to another user
SubmitQuizNotFound(sub) ==
  /\ UNCHANGED extraVars
  /\ handler = "none"
  /\ ~QuizFound(sub.quiz_id)
  /\ handler' = "submit_quiz"
  /\ hpc' = "responding"
  /\ submission' = sub
  /\ response' = [status |-> 404, detail |-> "Quiz not found"]
  /\ UNCHANGED <<dbVars, genVars, k, total_score, max_score, detailed_results,
                 llm_calls, body, committed>>

\* submit_quiz up to the first iteration of calculate_quiz_score
SubmitQuiz(sub) ==
  /\ UNCHANGED extraVars
  /\ handler = "none"
  /\ QuizFound(sub.quiz_id)
  /\ handler' = "submit_quiz"
  /\ hpc' = "scoring"
  /\ submission' = sub
  /\ k' = 1
  /\ total_score' = 0
  /\ max_score' = 0
  /\ detailed_results' = << >>
  /\ UNCHANGED <<dbVars, genVars, llm_calls, body, committed, response>>

\* calculate_quiz_score: the answer matches no question of the quiz
ScoreSkip ==
  /\ UNCHANGED extraVars
  /\ handler = "submit_quiz" /\ hpc = "scoring"
  /\ k <= Len(submission.answers)
  /\ FindQuestion(QuestionsOfQuiz(submission.quiz_id),
                  submission.answers[k].question_id).id = 0
  /\ k' = k + 1
  /\ UNCHANGED <<handler, dbVars, genVars, hpc, submission, total_score,
                 max_score, detailed_results, llm_calls, body, committed,
                 response>>

\* faulty variant of the multiple-choice step: the attempt row is written
\* and committed as soon as the answer is graded
ScoreMultipleChoiceCommitting ==
  /\ UNCHANGED extraVars
  /\ handler = "submit_quiz" /\ hpc = "scoring"
  /\ k <= Len(submission.answers)
  /\ LET answer == submission.answers[k]
         question == FindQuestion(QuestionsOfQuiz(submission.quiz_id),
                                  answer.question_id)
     IN  /\ question.id # 0
         /\ question.question_type = "multiple_choice"
         /\ LET is_correct == MultipleChoiceCorrect(answer.user_answer,
                                                    question.correct_answer)
                points_earned == IF is_correct THEN 100 * question.points ELSE 0
            IN  /\ max_score' = max_score + question.points
                /\ total_score' = total_score + points_earned
                /\ detailed_results' =
                     Append(detailed_results,
                            DetailedResult(question, answer, is_correct,
                                           points_earned))
  /\ k' = k + 1
  /\ attempt_rows' = attempt_rows + 1
  /\ UNCHANGED <<handler, quizzes, quiz_questions, progress, session_rows,
                 updates, genVars, hpc, submission, llm_calls, body,
                 committed, response>>

\* calculate_quiz_score: one multiple-choice answer
ScoreMultipleChoice ==
  /\ UNCHANGED extraVars
  /\ handler = "submit_quiz" /\ hpc = "scoring"
  /\ k <= Len(submission.answers)
  /\ LET answer == submission.answers[k]
         question == FindQuestion(QuestionsOfQuiz(submission.quiz_id),
                                  answer.question_id)
     IN  /\ question.id # 0
         /\ question.question_type = "multiple_choice"
         /\ LET is_correct == MultipleChoiceCorrect(answer.user_answer,
                                                    question.correct_answer)
                points_earned == IF is_correct THEN 100 * question.points ELSE 0
            IN  /\ max_score' = max_score + question.points
                /\ total_score' = total_score + points_earned
                /\ detailed_results' =
                     Append(detailed_results,
                            DetailedResult(question, answer, is_correct,
                                           points_earned))
  /\ k' = k + 1
  /\ UNCHANGED <<handler, dbVars, genVars, hpc, submission, llm_calls, body,
                 committed, response>>

\* calculate_quiz_score: an open-ended answer, up to llm.generate_response
ScoreOpenCall ==
  /\ UNCHANGED extraVars
  /\ handler = "submit_quiz" /\ hpc = "scoring"
  /\ k <= Len(submission.answers)
  /\ LET answer == submission.answers[k]
         question == FindQuestion(QuestionsOfQuiz(submission.quiz_id),
                                  answer.question_id)
     IN  /\ question.id # 0
         /\ question.question_type # "multiple_choice"
         /\ max_score' = max_score + question.points
         /\ generate_response(
              evaluation_prompt(question.question_text, answer.user_answer,
                                question.correct_answer),
              "general", DefaultMaxRetries)
  /\ llm_calls' = llm_calls + 1
  /\ hpc' = "evaluating"
  /\ UNCHANGED <<handler, dbVars, submission, k, total_score,
                 detailed_results, body, committed, response>>

\* calculate_quiz_score: generate_response has returned the evaluation
ScoreOpenReturn ==
  /\ UNCHANGED extraVars
  /\ handler = "submit_quiz" /\ hpc = "evaluating"
  /\ pc = "returned"
  /\ LET answer == submission.answers[k]
         question == FindQuestion(QuestionsOfQuiz(submission.quiz_id),
                                  answer.question_id)
         score == ScoreOf(result)
         points_earned == score * question.points
         is_correct == score >= 70
     IN  /\ total_score' = total_score + points_earned
         /\ detailed_results' =
              Append(detailed_results,
                     DetailedResult(question, answer, is_correct, points_earned))
  /\ k' = k + 1
  /\ hpc' = "scoring"
  /\ GenReset
  /\ UNCHANGED <<handler, dbVars, submission, max_score, llm_calls, body,
                 committed, response>>

\* the rest of submit_quiz: session and attempt rows, quiz status, progress,
\* db.commit() and the response
FinishSubmit ==
  /\ UNCHANGED extraVars
  /\ handler = "submit_quiz" /\ hpc = "scoring"
  /\ k > Len(submission.answers)
  /\ LET quiz == quizzes[submission.quiz_id]
         questions == QuestionsOfQuiz(submission.quiz_id)
         percentage == Percentage(total_score, max_score)
         quiz_session ==
           [user_id |-> CurrentUser, quiz_id |-> submission.quiz_id,
            total_score |-> total_score, max_possible_score |-> max_score,
            percentage |-> percentage,
            time_taken |-> SumTimeTaken(submission.answers),
            status |-> "completed"]
         answered ==
           SelectSeq(submission.answers,
                     LAMBDA a : FindQuestion(questions, a.question_id).id # 0)
         attempts ==
           [i \in 1..Len(answered) |->
              [quiz_id |-> submission.quiz_id,
               question_id |-> answered[i].question_id,
               user_id |-> CurrentUser,
               user_answer |-> answered[i].user_answer,
               is_correct |->
                 FirstResultFor(detailed_results, answered[i].question_id).is_correct,
               points_earned |->
                 FirstResultFor(detailed_results, answered[i].question_id).points_earned,
               time_taken |-> answered[i].time_taken]]
         progress_increase == ProgressIncrease(percentage)
         current_progress == ProgressGet(quiz.subject)
         new_progress == Min(100 * ProgressScale,
                             current_progress + progress_increase * ProgressScale)
     IN  /\ session_rows' = session_rows + 1
         /\ attempt_rows' = attempt_rows + Len(attempts)
         /\ committed' = [quiz_sessions |-> << quiz_session >>,
                          quiz_attempts |-> attempts]
         /\ quizzes' = [quizzes EXCEPT ![submission.quiz_id].status = "completed"]
         /\ progress' = ProgressSet(quiz.subject, new_progress)
         /\ response' =
              [status |-> 200,
               quiz_id |-> submission.quiz_id,
               total_score |-> total_score,
               max_score |-> max_score,
               percentage |-> percentage,
               correct_answers |->
                 Len(SelectSeq(detailed_results, LAMBDA r : r.is_correct)),
               total_questions |-> Len(detailed_results),
               time_taken |-> quiz_session.time_taken,
               detailed_results |-> detailed_results,
               progress_updated |-> new_progress,
               progress_increase |-> progress_increase]
  /\ hpc' = "responding"
  /\ UNCHANGED <<handler, genVars, quiz_questions, updates, submission, k,
                 total_score, max_score, detailed_results, llm_calls, body>>

\* the request ends before db.commit() (the worker stops or the call is
\* interrupted, possibly inside llm.generate_response): get_db closes the
\* session, which discards what was added and changed
AbandonSubmit ==
  /\ handler = "submit_quiz" /\ hpc \in {"scoring", "evaluating"}
  /\ handler' = "none"
  /\ hpc' = "idle"
  /\ submission' = NoSubmission
  /\ k' = 0
  /\ total_score' = 0
  /\ max_score' = 0
  /\ detailed_results' = << >>
  /\ llm_calls' = 0
  /\ GenReset
  /\ UNCHANGED <<dbVars, body, committed, response, extraVars>>

(***************************************************************************)
(* routers/recommend.py: update_progress.                                  *)
(***************************************************************************)
\* the score prompt of update_progress
score_prompt(user_answer, correct_answer) ==
  "Score user answer '" \o user_answer \o "' against correct '"
  \o correct_answer \o "' on a scale 0-100."

\* prompts assembled around learner-supplied text by quiz authoring, quiz
\* grading and update-progress
AssembledPrompts ==
  {authoring_prompt("beginner", "multiple_choice", "hacking",
                    "What is the output of this Python code: {code}"),
   evaluation_prompt("Sample math question 2?", "hack it", "Sample answer"),
   score_prompt("hack", "for")}

\* update_progress up to llm.generate_response
UpdateProgress(b) ==
  /\ UNCHANGED extraVars
  /\ handler = "none"
  /\ updates < MaxUpdates
  /\ handler' = "update_progress"
  /\ hpc' = "evaluating"
  /\ body' = b
  /\ llm_calls' = llm_calls + 1
  /\ generate_response(score_prompt(b.user_answer, b.correct_answer),
                       "general", DefaultMaxRetries)
  /\ UNCHANGED <<dbVars, submission, k, total_score, max_score,
                 detailed_results, committed, response>>

\* update_progress after generate_response has returned
UpdateProgressReturn ==
  /\ UNCHANGED extraVars
  /\ handler = "update_progress" /\ hpc = "evaluating"
  /\ pc = "returned"
  /\ LET score == ScoreOf(result)
         current_progress == ProgressGet(body.subject)
         new_score == (current_progress + score * ProgressScale) \div 2
     IN  /\ progress' = ProgressSet(body.subject, new_score)
         /\ response' = [status |-> 200, new_score |-> new_score]
  /\ updates' = updates + 1
  /\ hpc' = "responding"
  /\ GenReset
  /\ UNCHANGED <<handler, quizzes, quiz_questions, session_rows, attempt_rows,
                 submission, k, total_score, max_score, detailed_results,
                 llm_calls, body, committed>>

(***************************************************************************)
(* routers/quiz.py: generate_quiz_questions and create_quiz.               *)
(***************************************************************************)
NoQuizData ==
  [subject |-> "", difficulty |-> "", quiz_type |-> "", total_questions |-> 0]

\* question_templates
question_templates ==
  [s \in {"coding", "math", "ielts", "physics"} |->
    [t \in {"multiple_choice", "fill_blank", "code_completion"} |->
      CASE s = "coding" /\ t = "multiple_choice" ->
             {"What is the output of this Python code: {code}",
              "Which of the following is correct syntax for {concept}?",
              "What does this function do: {code}",
              "Which data structure is best for {use_case}?"}
        [] s = "coding" /\ t = "fill_blank" ->
             {"Complete this Python function: def {function_name}(): {code}",
              "Fill in the missing code: {code}",
              "What keyword is used for {concept}?",
              "Complete the loop: for i in {range}: {code}"}
        [] s = "coding" /\ t = "code_completion" ->
             {"Write a function that {description}",
              "Implement a {data_structure} class with {methods}",
              "Create a program that {task}",
              "Write code to {specific_task}"}
        [] s = "math" /\ t = "multiple_choice" ->
             {"What is the derivative of {function}?",
              "Solve this equation: {equation}",
              "What is the value of {expression}?",
              "Which formula is used for {concept}?"}
        [] s = "math" /\ t = "fill_blank" ->
             {"The derivative of {function} is ___",
              "The solution to {equation} is ___",
              "The value of {expression} equals ___",
              "The formula for {concept} is ___"}
        [] s = "math" /\ t = "code_completion" ->
             {"Calculate {mathematical_operation}",
              "Solve this problem: {problem_description}",
              "Find the value of {variable} in {equation}",
              "Prove that {mathematical_statement}"}
        [] s = "ielts" /\ t = "multiple_choice" ->
             {"Which is the correct form of {grammar_concept}?",
              "What is the meaning of {word}?",
              "Which sentence is grammatically correct?",
              "What is the main idea of this passage: {passage}"}
        [] s = "ielts" /\ t = "fill_blank" ->
             {"Complete the sentence: {sentence}",
              "Choose the correct word: {sentence_with_blank}",
              "Fill in the preposition: {sentence}",
              "Complete the idiom: {idiom_start}"}
        [] s = "ielts" /\ t = "code_completion" ->
             {"Write an essay introduction about {topic}",
              "Paraphrase this sentence: {sentence}",
              "Write a conclusion for this essay about {topic}",
              "Summarize this passage: {passage}"}
        [] s = "physics" /\ t = "multiple_choice" ->
             {"What is the unit of {physical_quantity}?",
              "Which law describes {phenomenon}?",
              "What is the formula for {concept}?",
              "What happens when {condition}?"}
        [] s = "physics" /\ t = "fill_blank" ->
             {"The unit of {quantity} is ___",
              "The formula for {concept} is ___",
              "According to {law}, ___",
              "The value of {constant} is ___"}
        [] OTHER ->
             {"Calculate the {physical_quantity} when {given_values}",
              "Solve this physics problem: {problem}",
              "Derive the formula for {concept}",
              "Explain the principle of {phenomenon}"}]]

\* templates = question_templates.get(subject, question_templates["coding"])
TemplatesOf(subject_name) ==
  IF subject_name \in DOMAIN question_templates
  THEN question_templates[subject_name] ELSE question_templates["coding"]

\* types: every type for a mixed quiz, else the quiz type itself
TypesOf(quiz_type) ==
  IF quiz_type = "mixed"
  THEN {"multiple_choice", "fill_blank", "code_completion"}
  ELSE {quiz_type}

\* templates.get(question_type, templates["multiple_choice"])
TemplateChoices(subject_name, qtype) ==
  LET templates == TemplatesOf(subject_name)
  IN  IF qtype \in DOMAIN templates THEN templates[qtype]
      ELSE templates["multiple_choice"]

\* the question types of the quiz bodies drawn
QuestionTypes == {"multiple_choice", "fill_blank", "code_completion"}

\* every template of question_templates
AllTemplates ==
  UNION {question_templates[s][t] : s \in DOMAIN question_templates,
                                   t \in QuestionTypes}

\* the difficulty create_quiz uses: "auto" is resolved from the progress
ResolvedDifficulty(qd) ==
  IF qd.difficulty # "auto" THEN qd.difficulty
  ELSE LET user_progress == ProgressGet(qd.subject)
       IN  IF user_progress < 30 * ProgressScale THEN "beginner"
           ELSE IF user_progress < 70 * ProgressScale THEN "intermediate"
           ELSE "advanced"

\* the question built from a parsed reply: the parsed dict with difficulty
\* and points set
GeneratedQuestion(data, difficulty) ==
  [fields |-> [n \in DOMAIN data \cup {"difficulty"} |->
                 IF n = "difficulty" THEN difficulty ELSE data[n]],
   points |-> PointsFor(difficulty)]

\* the placeholder appended by the except branch for item i (from 0)
PlaceholderQuestion(subject_name, i, qtype, difficulty) ==
  [fields |->
     [question_text  |-> "Sample " \o subject_name \o " question "
                           \o ToStr(i + 1) \o "?",
      question_type  |-> qtype,
      correct_answer |-> "Sample answer",
      explanation    |-> "This is a sample explanation",
      difficulty     |-> difficulty],
   points |-> PlaceholderPoints]

\* what one pass of the try block appends to questions for the reply
AppendedFor(reply, subject_name, i, qtype, difficulty) ==
  LET block == JsonMatch(reply)
      parsed == JsonLoads(block)
  IN  IF block = "" THEN << >>
      ELSE IF parsed.ok THEN << GeneratedQuestion(parsed.data, difficulty) >>
      ELSE << PlaceholderQuestion(subject_name, i, qtype, difficulty) >>

\* create_quiz up to the loop of generate_quiz_questions
CreateQuiz(qd) ==
  /\ handler = "none"
  /\ Cardinality(DOMAIN quizzes) < Cardinality(DOMAIN InitialQuizzes) + MaxCreates
  /\ handler' = "create_quiz"
  /\ hpc' = "authoring"
  /\ quiz_data' = [qd EXCEPT !.difficulty = ResolvedDifficulty(qd)]
  /\ questions_data' = << >>
  /\ qi' = 0
  /\ UNCHANGED <<dbVars, genVars, handlerVarsButPc, item_type, ragVars,
                 helperVars, fetchVars, serverVars>>

\* one iteration of generate_quiz_questions up to llm.generate_response
AuthorCall(qtype, template) ==
  /\ handler = "create_quiz" /\ hpc = "authoring"
  /\ qi < quiz_data.total_questions
  /\ qtype \in TypesOf(quiz_data.quiz_type)
  /\ template \in TemplateChoices(quiz_data.subject, qtype)
  /\ item_type' = qtype
  /\ generate_response(
       authoring_prompt(quiz_data.difficulty, qtype, quiz_data.subject, template),
       quiz_data.subject, DefaultMaxRetries)
  /\ llm_calls' = llm_calls + 1
  /\ hpc' = "generating"
  /\ UNCHANGED <<handler, dbVars, submission, k, total_score, max_score,
                 detailed_results, body, committed, response, quiz_data,
                 questions_data, qi, ragVars, helperVars, fetchVars, serverVars>>

\* the rest of the iteration, once generate_response has returned
AuthorReturn ==
  /\ handler = "create_quiz" /\ hpc = "generating"
  /\ pc = "returned"
  /\ questions_data' =
       questions_data \o AppendedFor(result, quiz_data.subject, qi, item_type,
                                     quiz_data.difficulty)
  /\ qi' = qi + 1
  /\ hpc' = "authoring"
  /\ GenReset
  /\ UNCHANGED <<handler, dbVars, handlerVarsButPc, quiz_data, item_type,
                 ragVars, helperVars, fetchVars, serverVars>>

\* q_data["question_text"], q_data["question_type"] and
\* q_data["correct_answer"] do not raise KeyError
HasRequiredKeys(q_data) ==
  {"question_text", "question_type", "correct_answer"} \subseteq DOMAIN q_data.fields

\* d.get(key)
DictGet(d, key) ==
  IF key \in DOMAIN d THEN d[key] ELSE NoneValue

\* the QuizQuestion row of the i-th item of questions_data
QuestionRow(q_data, quiz_id, i) ==
  [id |-> Len(quiz_questions) + i, quiz_id |-> quiz_id,
   question_text |-> q_data.fields["question_text"],
   question_type |-> q_data.fields["question_type"],
   options |-> DictGet(q_data.fields, "options"),
   correct_answer |-> q_data.fields["correct_answer"],
   explanation |-> DictGet(q_data.fields, "explanation"),
   points |-> q_data.points, order |-> i]

\* the rest of create_quiz: the question records, db.commit() and the
\* response; a KeyError leaves the handler before the commit
CreateFinish ==
  /\ handler = "create_quiz" /\ hpc = "authoring"
  /\ qi >= quiz_data.total_questions
  /\ LET quiz_id == Cardinality(DOMAIN quizzes) + 1
         quiz == [user_id |-> CurrentUser, subject |-> quiz_data.subject,
                  difficulty |-> quiz_data.difficulty, status |-> "active"]
     IN  IF \A i \in 1..Len(questions_data) : HasRequiredKeys(questions_data[i])
         THEN /\ quizzes' = [q \in DOMAIN quizzes \cup {quiz_id} |->
                               IF q = quiz_id THEN quiz ELSE quizzes[q]]
              /\ quiz_questions' =
                   quiz_questions
                     \o [i \in 1..Len(questions_data) |->
                           QuestionRow(questions_data[i], quiz_id, i)]
              /\ response' = [status |-> 200, quiz_id |-> quiz_id,
                              total_questions |-> quiz_data.total_questions]
         ELSE /\ response' = [status |-> 500, detail |-> "Internal Server Error"]
              /\ UNCHANGED <<quizzes, quiz_questions>>
  /\ hpc' = "responding"
  /\ UNCHANGED <<handler, genVars, progress, session_rows, attempt_rows,
                 updates, submission, k, total_score, max_score,
                 detailed_results, llm_calls, body, committed, extraVars>>

(***************************************************************************)
(* routers/quiz.py: get_quiz_recommendations.  The progress map is read in  *)
(* the key order of the stored dict, which is an argument here.             *)
(***************************************************************************)
\* faulty variant of the difficulty of the weakest subject: the thresholds
\* belong to the lower level
WeakestDifficultyInclusive(weakest_score) ==
  IF weakest_score <= 30 * ProgressScale THEN "beginner"
  ELSE IF weakest_score <= 60 * ProgressScale THEN "intermediate"
  ELSE "advanced"

\* the difficulty recommended for the weakest subject
WeakestDifficulty(weakest_score) ==
  IF weakest_score < 30 * ProgressScale THEN "beginner"
  ELSE IF weakest_score < 60 * ProgressScale THEN "intermediate"
  ELSE "advanced"

\* the list recommendations for a non-empty progress map with the given key
\* order (the reason texts are left out)
Recommendations(order) ==
  LET \* min(progress.keys(), key=lambda x: progress[x]): the first minimum
      w == CHOOSE i \in 1..Len(order) :
             /\ \A j \in 1..Len(order) : progress[order[i]] <= progress[order[j]]
             /\ \A j \in 1..(i - 1) : progress[order[j]] > progress[order[i]]
      weakest_subject == order[w]
      others == SelectSeq(order,
                          LAMBDA x : /\ x # weakest_subject
                                     /\ progress[x] < 80 * ProgressScale)
  IN  << [subject |-> weakest_subject,
          difficulty |-> WeakestDifficulty(progress[weakest_subject]),
          quiz_type |-> "mixed",
          priority |-> "high"] >>
      \o [i \in 1..Len(others) |->
            [subject |-> others[i],
             difficulty |-> IF progress[others[i]] > 50 * ProgressScale
                            THEN "intermediate" ELSE "beginner",
             quiz_type |-> "mixed",
             priority |-> "medium"]]

\* get_quiz_recommendations
GetQuizRecommendations(order) ==
  /\ handler = "none"
  /\ order \in KeyOrders(DOMAIN progress)
  /\ handler' = "get_quiz_recommendations"
  /\ hpc' = "responding"
  /\ response' =
       IF DOMAIN progress = {}
       THEN [status |-> 200,
             recommendations |->
               << [subject |-> "coding", difficulty |-> "beginner",
                   quiz_type |-> "mixed"] >>]
       ELSE [status |-> 200,
             recommendations |-> Recommendations(order),
             progress_summary |->
               [i \in 1..Len(order) |->
                  [subject |-> order[i], score |-> progress[order[i]]]]]
  /\ UNCHANGED <<dbVars, genVars, submission, k, total_score, max_score,
                 detailed_results, llm_calls, body, committed, extraVars>>

(***************************************************************************)
(* Calls of the helper methods of the services.                            *)
(***************************************************************************)
\* faulty variant of the call: the examples of the subject are reordered so
\* that the last one is found first next time
RetrieveContextReordering(svc, subject_name, query, max_chars, top_k) ==
  /\ handler = "none" /\ pc = "idle" /\ call = NoCall
  /\ call' = [fn |-> "retrieve_context", service |-> svc,
              subject |-> subject_name, prompt |-> query,
              max_chars |-> max_chars, top_k |-> top_k,
              result |->
                IF svc = "gemini"
                THEN GeminiRetrieveContext(datasets, vectorizers, tfidf_matrices,
                                           subject_name, query, max_chars, top_k)
                ELSE LLMSRetrieveContext(datasets, subject_name, query, max_chars)]
  /\ datasets' = [d \in DOMAIN datasets |->
                    IF d = Lower(subject_name) THEN Reversed(datasets[d])
                    ELSE datasets[d]]
  /\ UNCHANGED <<handler, dbVars, handlerVars, authorVars, vectorizers,
                 tfidf_matrices, fetchVars, serverVars, genVars, last_retrieval>>

\* retrieve_context(subject, prompt, max_chars, top_k) of the service svc
RetrieveContext(svc, subject_name, query, max_chars, top_k) ==
  /\ handler = "none" /\ pc = "idle" /\ call = NoCall
  /\ call' = [fn |-> "retrieve_context", service |-> svc,
              subject |-> subject_name, prompt |-> query,
              max_chars |-> max_chars, top_k |-> top_k,
              result |->
                IF svc = "gemini"
                THEN GeminiRetrieveContext(datasets, vectorizers, tfidf_matrices,
                                           subject_name, query, max_chars, top_k)
                ELSE LLMSRetrieveContext(datasets, subject_name, query, max_chars)]
  /\ UNCHANGED <<handler, dbVars, handlerVars, authorVars, ragVars, fetchVars, serverVars,
                 genVars, last_retrieval>>

\* analyze_emotion(text) of GeminiService ("gemini") or EmotionAnalyzer
CallAnalyzeEmotion(svc, text) ==
  /\ handler = "none" /\ pc = "idle" /\ call = NoCall
  /\ call' = [fn |-> "analyze_emotion", service |-> svc, text |-> text,
              result |-> AnalyzeEmotion(svc, text)]
  /\ UNCHANGED <<handler, dbVars, handlerVars, authorVars, ragVars, fetchVars, serverVars,
                 genVars, last_retrieval>>

\* detect_language(prompt)
CallDetectLanguage(text) ==
  /\ handler = "none" /\ pc = "idle" /\ call = NoCall
  /\ call' = [fn |-> "detect_language", prompt |-> text,
              result |-> DetectLanguage(text)]
  /\ UNCHANGED <<handler, dbVars, handlerVars, authorVars, ragVars, fetchVars, serverVars,
                 genVars, last_retrieval>>

\* the caller has taken the value a helper method returned
HelperReturn ==
  /\ call # NoCall
  /\ call' = NoCall
  /\ last_retrieval' = IF call.fn = "retrieve_context" THEN call ELSE last_retrieval
  /\ UNCHANGED <<handler, dbVars, handlerVars, authorVars, ragVars, fetchVars, serverVars,
                 genVars>>

\* the response has been sent; the request and its db session are gone
Respond ==
  /\ handler \in {"submit_quiz", "update_progress", "create_quiz",
                  "get_quiz_questions", "get_quiz_recommendations"}
  /\ hpc = "responding"
  /\ handler' = "none"
  /\ hpc' = "idle"
  /\ submission' = NoSubmission
  /\ k' = 0
  /\ total_score' = 0
  /\ max_score' = 0
  /\ detailed_results' = << >>
  /\ llm_calls' = 0
  /\ body' = NoBody
  /\ committed' = NoCommit
  /\ response' = NoResponse
  /\ quiz_data' = NoQuizData
  /\ questions_data' = << >>
  /\ qi' = 0
  /\ item_type' = ""
  /\ requested_quiz' = 0
  /\ UNCHANGED <<dbVars, genVars, ragVars, helperVars, serverVars>>

(***************************************************************************)
(* Concurrent requests in the server process started by main.py: one event  *)
(* loop thread accepts requests, runs the handlers declared "async def" and *)
(* sends every response; handlers declared "def" run in worker threads.     *)
(* A request is followed through the generate_response calls of its         *)
(* handler; the database is left out.                                       *)
(***************************************************************************)
\* a request reaches the server's socket
Arrive(r, endpoint, calls) ==
  /\ requests[r].at = "absent"
  /\ calls \in GenerationCalls(endpoint)
  /\ requests' = [requests EXCEPT ![r] =
                    [endpoint |-> endpoint, at |-> "waiting",
                     calls |-> calls, attempt |-> 0]]
  /\ UNCHANGED <<loop, handler, dbVars, handlerVars, genVars, authorVars,
                 ragVars, helperVars, fetchVars>>

\* the event loop reads the request and starts its handler: ask_qa on the
\* loop thread itself, the others in a worker thread
Start(r) ==
  /\ requests[r].at = "waiting"
  /\ loop = 0
  /\ requests' = [requests EXCEPT ![r].at =
                    IF requests[r].calls = 0 THEN "returned" ELSE "attempting"]
  /\ loop' = IF requests[r].endpoint \in AsyncEndpoints THEN r ELSE 0
  /\ UNCHANGED <<handler, dbVars, handlerVars, genVars, authorVars,
                 ragVars, helperVars, fetchVars>>

\* a primary generation call of the request returns: generate_response
\* returns, and the handler makes its next call or returns
RequestAttemptReturns(r) ==
  /\ requests[r].at = "attempting"
  /\ requests' = [requests EXCEPT ![r] =
                    [@ EXCEPT !.calls = @ - 1, !.attempt = 0,
                              !.at = IF requests[r].calls = 1 THEN "returned"
                                     ELSE "attempting"]]
  /\ UNCHANGED <<loop, handler, dbVars, handlerVars, genVars, authorVars,
                 ragVars, helperVars, fetchVars>>

\* a primary generation call of the request raises: the except branch
RequestAttemptRaises(r, msg) ==
  /\ requests[r].at = "attempting"
  /\ requests' = [requests EXCEPT ![r] =
                    IF /\ is_quota_exceeded_error(msg)
                       /\ requests[r].attempt # DefaultMaxRetries
                    THEN [@ EXCEPT !.at = "sleeping"]
                    ELSE [@ EXCEPT !.calls = @ - 1, !.attempt = 0,
                                   !.at = IF requests[r].calls = 1
                                          THEN "returned" ELSE "attempting"]]
  /\ UNCHANGED <<loop, handler, dbVars, handlerVars, genVars, authorVars,
                 ragVars, helperVars, fetchVars>>

\* time.sleep(wait_time) of the request returns; continue
RequestBackoff(r) ==
  /\ requests[r].at = "sleeping"
  /\ requests' = [requests EXCEPT ![r] =
                    [@ EXCEPT !.attempt = @ + 1, !.at = "attempting"]]
  /\ UNCHANGED <<loop, handler, dbVars, handlerVars, genVars, authorVars,
                 ragVars, helperVars, fetchVars>>

\* the event loop sends the response of a handler that has returned
Complete(r) ==
  /\ requests[r].at = "returned"
  /\ loop \in {0, r}
  /\ requests' = [requests EXCEPT ![r].at = "done"]
  /\ loop' = 0
  /\ UNCHANGED <<handler, dbVars, handlerVars, genVars, authorVars,
                 ragVars, helperVars, fetchVars>>

(***************************************************************************)
(* Specifications.                                                         *)
(***************************************************************************)
\* no request is being served; the tables, the progress of the user and the
\* examples, fitted vectorizers and similarities of the services are given
InitFrom(qz, qs, map, sessions, attempts, sets, fitted, matrices) ==
  /\ handler = "none"
  /\ GenInit
  /\ quizzes = qz
  /\ quiz_questions = qs
  /\ progress = map
  /\ session_rows = sessions
  /\ attempt_rows = attempts
  /\ updates = 0
  /\ hpc = "idle"
  /\ submission = NoSubmission
  /\ k = 0
  /\ total_score = 0
  /\ max_score = 0
  /\ detailed_results = << >>
  /\ llm_calls = 0
  /\ body = NoBody
  /\ committed = NoCommit
  /\ response = NoResponse
  /\ quiz_data = NoQuizData
  /\ questions_data = << >>
  /\ qi = 0
  /\ item_type = ""
  /\ datasets = sets
  /\ vectorizers = fitted
  /\ tfidf_matrices = matrices
  /\ call = NoCall
  /\ last_retrieval = NoCall
  /\ requested_quiz = 0
  /\ requests = [r \in Requests |-> NoRequest]
  /\ loop = 0

\* the state after start-up, for the given loaded examples, fitted
\* vectorizers, similarities and stored progress of the user
InitWith(sets, fitted, matrices, map) ==
  InitFrom(InitialQuizzes, InitialQuestions, map, 0, 0, sets, fitted, matrices)

\* no vectorizer is fitted (scikit-learn is absent) and the user is new
Init == InitWith(LoadedDatasets, {}, << >>, << >>)

\* every start-up of the services: the examples loaded, the subjects with a
\* fitted vectorizer and their similarities
InitHelpers ==
  \E sets \in DatasetChoices, sim \in SimilarityChoices :
    \E fitted \in SUBSET DOMAIN sets :
      InitWith(sets, fitted, [d \in fitted |-> sim], << >>)

\* the steps of an in-flight generate_response call, for the given behaviours
\* of the generation capability
GenStep(texts, msgs, jitters, enhanced) ==
  \/ \E text \in texts : AttemptReturns(text)
  \/ \E msg \in msgs : AttemptRaises(msg)
  \/ \E jitter \in jitters : Backoff(jitter)
  \/ \E text \in enhanced : EnhanceReturns(text)
  \/ EnhanceRaises

\* the steps of an in-flight LLMSService.generate_response call
LLMSStep(texts, msgs, refined) ==
  \/ \E text \in texts : LLMSReturns(text)
  \/ \E msg \in msgs : LLMSRaises(msg)
  \/ \E text \in refined : LLMSRefineReturns(text)
  \/ LLMSRefineRaises

NextGen ==
  \/ \E p \in Prompts \cup AssembledPrompts, s \in Subjects,
        mr \in -1..MaxRetriesArg :
       CallDirect(p, s, mr)
  \/ \E p \in Prompts \cup AssembledPrompts, s \in Subjects :
       CallDirectLLMS(p, s)
  \/ DirectReturn
  \/ GenStep(ModelTexts, ErrorMessages, JitterTenths, EnhancedTexts)
  \/ LLMSStep(ModelTexts, ErrorMessages, EnhancedTexts)

\* generate_response called directly with every argument
SpecGen == Init /\ [][NextGen]_vars

\* every generation call returns or raises and every time.sleep ends
FairGen ==
  WF_vars(GenStep(ModelTexts, ErrorMessages, JitterTenths, EnhancedTexts))

\* SpecGen with generation calls and sleeps that end
SpecGenFair == SpecGen /\ FairGen

NextAuthor ==
  \/ \E qd \in QuizCreates : CreateQuiz(qd)
  \/ \E qtype \in QuestionTypes, template \in AllTemplates :
       AuthorCall(qtype, template)
  \/ AuthorReturn
  \/ CreateFinish
  \/ Respond
  \/ GenStep(AuthorTexts, AuthorErrors, HandlerJitter, AuthorEnhanced)

\* create_quiz, with the generate_response calls it makes
SpecAuthor == Init /\ [][NextAuthor]_vars

\* every stored progress map of the user
InitRecommend ==
  \E map \in ProgressMaps : InitWith(LoadedDatasets, {}, << >>, map)

NextRecommend ==
  \/ \E order \in UNION {KeyOrders(keys) : keys \in SUBSET ProgressSubjects} :
       GetQuizRecommendations(order)
  \/ Respond

\* get_quiz_recommendations for every stored progress map
SpecRecommend == InitRecommend /\ [][NextRecommend]_vars

NextServer ==
  \/ \E r \in Requests, endpoint \in Endpoints, calls \in {0, 1, 2} :
       Arrive(r, endpoint, calls)
  \/ \E r \in Requests : Start(r)
  \/ \E r \in Requests : RequestAttemptReturns(r)
  \/ \E r \in Requests, msg \in HandlerErrors : RequestAttemptRaises(r, msg)
  \/ \E r \in Requests : RequestBackoff(r)
  \/ \E r \in Requests : Complete(r)

\* concurrent requests in one server process
SpecServer == Init /\ [][NextServer]_vars

\* start-ups with the corpus that has a long block
InitBudget ==
  \E sim \in BudgetSimilarities :
    \E fitted \in SUBSET DOMAIN BudgetDatasets :
      InitWith(BudgetDatasets, fitted, [d \in fitted |-> sim], << >>)

NextBudget ==
  \/ \E q \in Queries, mc \in BudgetMaxChars, tk \in BudgetTopK :
       RetrieveContext("gemini", "coding", q, mc, tk)
  \/ \E q \in Queries, mc \in BudgetMaxChars :
       RetrieveContext("llms", "coding", q, mc, KeptExamples)
  \/ HelperReturn

\* retrieve_context with budgets around the lengths of the blocks
SpecBudget == InitBudget /\ [][NextBudget]_vars

\* quiz 1 has been submitted and graded 100%: one session row, one attempt
\* row, progress 5 in math
InitResubmit ==
  InitFrom(CompletedQuizzes, InitialQuestions,
           [s \in {"math"} |-> 5 * ProgressScale], 1, 1,
           LoadedDatasets, {}, << >>)

NextResubmit ==
  \/ \E sub \in Resubmissions : session_rows < MaxResubmits /\ SubmitQuiz(sub)
  \/ ScoreSkip
  \/ ScoreMultipleChoice
  \/ FinishSubmit
  \/ Respond

\* further submissions of a completed quiz
SpecResubmit == InitResubmit /\ [][NextResubmit]_vars

\* the state after start-up with questions whose correct answers and
\* explanations are any of the values
InitFetch ==
  \E table \in QuestionVariants :
    InitFrom(InitialQuizzes, table, [s \in {} |-> 0], 0, 0,
             LoadedDatasets, {}, << >>)

NextFetch ==
  \/ \E id \in FetchIds : GetQuizQuestions(id)
  \/ \E sub \in Resubmissions : session_rows < MaxSubmits /\ SubmitQuiz(sub)
  \/ ScoreSkip
  \/ ScoreMultipleChoice
  \/ FinishSubmit
  \/ Respond

\* fetching and submitting quizzes that differ in their answers only
SpecFetch == InitFetch /\ [][NextFetch]_vars

NextHelpers ==
  \/ \E s \in RetrievalSubjects, q \in Queries, mc \in MaxCharsArgs,
        tk \in TopKArgs :
       RetrieveContext("gemini", s, q, mc, tk)
  \/ \E s \in RetrievalSubjects, q \in Queries, mc \in MaxCharsArgs :
       RetrieveContext("llms", s, q, mc, KeptExamples)
  \/ \E svc \in {"gemini", "analyzer"}, t \in EmotionTexts :
       CallAnalyzeEmotion(svc, t)
  \/ \E t \in LanguageTexts : CallDetectLanguage(t)
  \/ HelperReturn

\* the helper methods, called with every argument after every start-up
SpecHelpers == InitHelpers /\ [][NextHelpers]_vars

Next ==
  \/ \E p \in ChatPrompts : CallDirect(p, "coding", DefaultMaxRetries)
  \/ DirectReturn
  \/ \E id \in FetchIds : GetQuizQuestions(id)
  \/ \E sub \in Submissions :
       session_rows < MaxSubmits /\ SubmitQuizNotFound(sub)
  \/ \E sub \in Submissions : session_rows < MaxSubmits /\ SubmitQuiz(sub)
  \/ ScoreSkip
  \/ ScoreMultipleChoice
  \/ ScoreOpenCall
  \/ ScoreOpenReturn
  \/ FinishSubmit
  \/ AbandonSubmit
  \/ \E b \in ProgressUpdates : UpdateProgress(b)
  \/ UpdateProgressReturn
  \/ Respond
  \/ GenStep(HandlerTexts, HandlerErrors, HandlerJitter, HandlerEnhanced)

\* the request handlers, with the generate_response calls they make
Spec == Init /\ [][Next]_vars

(***************************************************************************)
(* Properties of generate_response, checked under SpecGen.                 *)
(***************************************************************************)
\* C1: when a GeminiService.generate_response call got past the safety and
\* greeting shortcuts and every one of its max_retries + 1 primary attempts
\* failed with an error classified as quota/rate-limit, the call has returned
\* (it did not raise) a non-empty text of the canned fallbacks: a keyword
\* paragraph of the subject when a keyword of the subject occurs in the
\* prompt, else a member of the subject's set, else a member of the general set.
C1_QuotaExhaustionReturnsFallback ==
  LET sl == Lower(subject)
      paragraphs ==
        {keyword_fallbacks[i][3] :
           i \in {j \in 1..Len(keyword_fallbacks) :
                    /\ keyword_fallbacks[j][1] = sl
                    /\ \E w \in keyword_fallbacks[j][2] :
                         Contains(Lower(prompt), w)}}
      canned == IF paragraphs # {} THEN paragraphs
                ELSE IF sl \in DOMAIN fallback_responses
                THEN fallback_responses[sl]
                ELSE fallback_responses["general"]
  IN  (/\ service = "gemini"
       /\ retrieved
       /\ max_retries >= 0
       /\ genCalls = max_retries + 1
       /\ Len(failures) = max_retries + 1
       /\ \A i \in 1..Len(failures) : is_quota_exceeded_error(failures[i]))
      => (pc = "returned" /\ result # "" /\ result \in canned)

\* "What is a variable?" on subject coding, three quota failures, two
\* backoffs: the keyword paragraph about variables is returned
C1_Witness ==
  /\ service = "gemini"
  /\ pc = "returned"
  /\ prompt = "What is a variable?"
  /\ subject = "coding"
  /\ max_retries = 2
  /\ Len(failures) = 3
  /\ \A i \in 1..3 : is_quota_exceeded_error(failures[i])
  /\ Len(waits) = 2
  /\ Contains(result, "Variables in programming store data values")

\* C2: whenever GeminiService.generate_response has returned, for every
\* max_retries and on every path (refusal, greeting, success with or without
\* the expansion pass, empty model output, quota exhaustion, hard failure,
\* retry loop never entered), the returned text is not empty; and the call
\* never ends by raising.
C2_ResponseNeverEmpty ==
  service = "gemini" => (pc # "raised" /\ (pc = "returned" => result # ""))

\* the model produced only whitespace, the expansion pass was tried and gave
\* nothing usable: the apology is returned in place of the empty text
C2_Witness ==
  /\ service = "gemini"
  /\ pc = "returned"
  /\ genCalls = 1
  /\ enhanceCalls = 1
  /\ cleaned = ""
  /\ result = EmptyOutputMessage

\* C3: a primary attempt of GeminiService.generate_response that failed with
\* a message matching no quota/rate-limit indicator is the last thing the
\* call did: the call has returned the apology that embeds the message, no
\* sleep followed the failure, no further primary attempt and no expansion
\* call was made, whatever max_retries is.
C3_HardFailureReturnsAtOnce ==
  service = "gemini" =>
    \A i \in 1..Len(failures) :
      ~(\E ind \in quota_indicators : Contains(Lower(failures[i]), ind)) =>
        /\ i = Len(failures)
        /\ pc = "returned"
        /\ result = "I apologize, but I encountered an error: " \o failures[i]
                      \o ". Please try again."
        /\ genCalls = i
        /\ Len(waits) = i - 1
        /\ enhanceCalls = 0

\* a quota failure, a backoff, then a hard failure on the second of three
\* allowed attempts
C3_Witness ==
  /\ service = "gemini"
  /\ pc = "returned"
  /\ max_retries = 2
  /\ Len(failures) = 2
  /\ is_quota_exceeded_error(failures[1])
  /\ ~is_quota_exceeded_error(failures[2])
  /\ Len(waits) = 1
  /\ genCalls = 2
  /\ result = HardFailureMessage(failures[2])

\* C9: for a prompt that contains a disallowed topic word (case ignored),
\* generate_response of either service has returned its fixed refusal and
\* has made no generation call, no expansion call, no retrieval, no retry
\* wait and no fallback selection; the prompts assembled by quiz authoring,
\* quiz grading and update-progress around learner text are among the inputs.
C9_UnsafePromptRefused ==
  (/\ pc # "idle"
   /\ \E w \in {"kill", "bomb", "hate", "illegal", "hack", "drug"} :
        Contains(Lower(prompt), w))
  => /\ pc = "returned"
     /\ result = IF service = "llms"
                 THEN "Sorry, educational questions only."
                 ELSE "Sorry, I can only help with educational questions."
     /\ genCalls = 0
     /\ enhanceCalls = 0
     /\ ~retrieved
     /\ waits = << >>
     /\ failures = << >>

\* the authoring prompt of a quiz on subject "hacking" is refused
C9_Witness ==
  /\ service = "gemini"
  /\ pc = "returned"
  /\ prompt = authoring_prompt("beginner", "multiple_choice", "hacking",
                               "What is the output of this Python code: {code}")
  /\ result = RefusalMessage
  /\ genCalls = 0

\* C10: for an input of at most two words that, lower-cased and stripped of
\* surrounding '!', '.', ',' and spaces, is a word of the service's greeting
\* vocabulary, generate_response has returned one of the two canned
\* greetings without any generation call, and it is the informal-register
\* greeting exactly when the input contains an informal-register marker.
C10_GreetingShortcut ==
  LET vocabulary == IF service = "llms" THEN llms_greeting_markers
                    ELSE greeting_markers
  IN  (/\ pc # "idle"
       /\ WordCount(prompt) <= 2
       /\ StripChars(Lower(prompt), {"!", ".", ",", " "}) \in vocabulary)
      => /\ pc = "returned"
         /\ genCalls = 0
         /\ enhanceCalls = 0
         /\ result \in {RomanGreeting, EnglishGreeting}
         /\ (result = RomanGreeting) <=>
              (\E m \in {"salam", "salaam", "asl", "assalam", "asalam"} :
                 Contains(Lower(prompt), m))

\* " ASL ." is answered with the informal-register greeting
C10_Witness ==
  /\ pc = "returned"
  /\ prompt = " ASL ."
  /\ result = RomanGreeting
  /\ genCalls = 0

(***************************************************************************)
(* Properties of quiz grading and of the progress map, checked under Spec. *)
(* Points earned and total scores are in hundredths of a point; progress   *)
(* scalars are in units of 1/ProgressScale.                                *)
(***************************************************************************)
\* C4: every multiple-choice entry of a grading earns 0 or question.points, and
\* it earns question.points and is marked correct exactly when the submitted
\* answer equals the stored correct answer after trimming surrounding
\* whitespace and ignoring case; grading makes one generate_response call per
\* non-multiple-choice entry and none for a multiple-choice entry.
C4_MultipleChoiceGrading ==
  handler = "submit_quiz" =>
    LET question(r) ==
          CHOOSE q \in {quiz_questions[j] : j \in 1..Len(quiz_questions)} :
            q.id = r.question_id
        open == {i \in 1..Len(detailed_results) :
                   question(detailed_results[i]).question_type
                     # "multiple_choice"}
    IN  /\ \A i \in 1..Len(detailed_results) :
             LET r == detailed_results[i]
                 q == question(r)
             IN  q.question_type = "multiple_choice" =>
                   /\ r.points_earned \in {0, 100 * q.points}
                   /\ r.is_correct <=> (r.points_earned = 100 * q.points)
                   /\ r.is_correct <=>
                        (Lower(StripChars(r.user_answer, {" ", "\t", "\n", "\r"}))
                           = Lower(StripChars(q.correct_answer,
                                              {" ", "\t", "\n", "\r"})))
        /\ llm_calls = Cardinality(open) + (IF hpc = "evaluating" THEN 1 ELSE 0)
        /\ hpc = "evaluating" =>
             FindQuestion(QuestionsOfQuiz(submission.quiz_id),
                          submission.answers[k].question_id).question_type
               # "multiple_choice"
        /\ hpc # "evaluating" => pc = "idle"

\* " option a " against the stored "Option A": correct, full points, and no
\* generate_response call in the whole grading
C4_Witness ==
  /\ handler = "submit_quiz"
  /\ hpc = "responding"
  /\ response.status = 200
  /\ llm_calls = 0
  /\ \E i \in 1..Len(response.detailed_results) :
       LET r == response.detailed_results[i]
       IN  /\ r.user_answer = " option a "
           /\ r.correct_answer = "Option A"
           /\ r.is_correct
           /\ r.points_earned = 100 * r.max_points
           /\ r.max_points > 0

\* C5: in every grading each points_earned lies in [0, question.points], the
\* total score is at most the maximum score and the percentage lies in
\* [0, 100], whatever text the generator returns for an open-ended answer.
C5_ScoresWithinBounds ==
  handler = "submit_quiz" =>
    /\ \A i \in 1..Len(detailed_results) :
         /\ 0 <= detailed_results[i].points_earned
         /\ detailed_results[i].points_earned
              <= 100 * detailed_results[i].max_points
    /\ (hpc = "responding" /\ response.status = 200) =>
         /\ response.total_score <= 100 * response.max_score
         /\ 0 <= response.percentage.num
         /\ response.percentage.num <= 100 * response.percentage.den

\* C6: grading never divides by zero: the percentage of a grading is always
\* defined, and a grading whose maximum score is 0 (no answer, or no answer
\* matching a question of the quiz) completes with percentage 0.
C6_NoDivisionByZero ==
  /\ (handler = "submit_quiz" /\ hpc = "scoring") =>
       Percentage(total_score, max_score).den # 0
  /\ (handler = "submit_quiz" /\ hpc = "scoring"
        /\ k > Len(submission.answers) /\ max_score = 0) =>
       ENABLED FinishSubmit
  /\ (handler = "submit_quiz" /\ hpc = "responding" /\ response.status = 200) =>
       /\ response.percentage.den # 0
       /\ response.max_score = 0 => response.percentage.num = 0

\* a submission whose only answer matches no question of the quiz is graded
\* with maximum score 0 and percentage 0
C6_Witness ==
  /\ handler = "submit_quiz"
  /\ hpc = "responding"
  /\ response.status = 200
  /\ Len(submission.answers) > 0
  /\ response.max_score = 0
  /\ response.percentage.num = 0
  /\ response.total_questions = 0

\* C7: the step that completes a submission with percentage p for a quiz of
\* subject s sets the progress of s to min(100, old + d), old being 0 for an
\* unseen subject and d = 5 if p >= 80, 3 if 60 <= p < 80, 1 otherwise, and
\* leaves the progress of every other subject as it was; no other step of a
\* submission changes the progress map.
C7_ProgressAfterQuiz ==
  [][handler = "submit_quiz" =>
       IF hpc = "scoring" /\ hpc' = "responding"
       THEN LET s == quizzes[submission.quiz_id].subject
                old == IF s \in DOMAIN progress THEN progress[s] ELSE 0
                p == response'.percentage
                d == IF p.num >= 80 * p.den THEN 5
                     ELSE IF p.num >= 60 * p.den THEN 3 ELSE 1
                new == IF old + d * ProgressScale <= 100 * ProgressScale
                       THEN old + d * ProgressScale ELSE 100 * ProgressScale
            IN  /\ response'.status = 200
                /\ DOMAIN progress' = DOMAIN progress \cup {s}
                /\ progress'[s] = new
                /\ \A t \in DOMAIN progress \ {s} : progress'[t] = progress[t]
       ELSE progress' = progress]_vars

\* a submission graded between 60% and 80% has raised math from nothing to 3
\* while the progress of coding, set by an earlier update, is still there
C7_Witness ==
  /\ handler = "submit_quiz"
  /\ hpc = "responding"
  /\ response.status = 200
  /\ response.percentage.num >= 60 * response.percentage.den
  /\ response.percentage.num < 80 * response.percentage.den
  /\ "coding" \in DOMAIN progress
  /\ "math" \in DOMAIN progress
  /\ progress["math"] = 3 * ProgressScale

\* C8: starting from the empty progress map, after any quiz submissions and
\* update-progress calls every progress scalar lies in [0, 100].
C8_ProgressWithinRange ==
  \A s \in DOMAIN progress :
    0 <= progress[s] /\ progress[s] <= 100 * ProgressScale

\* C12: grading an answer to a question that is not multiple choice makes
\* one generation call; the score is the first integer of the reply, or 50
\* when the reply holds no integer or the generation call failed; the points
\* earned are score/100 of the question's points and the answer is correct
\* exactly when the score is at least 70.
C12_OpenAnswerScore ==
  [][/\ (handler = "submit_quiz" /\ hpc = "scoring" /\ hpc' = "evaluating") =>
          llm_calls' = llm_calls + 1
     /\ (handler = "submit_quiz" /\ hpc = "evaluating" /\ hpc' = "scoring") =>
          LET failed == outcome \in {"hard_failure", "exhausted"}
              score == IF ~failed /\ HasInt(result) THEN FirstInt(result) ELSE 50
              graded == detailed_results'[Len(detailed_results')]
          IN  /\ Len(detailed_results') = Len(detailed_results) + 1
              /\ graded.question_id = submission.answers[k].question_id
              /\ graded.points_earned = score * graded.max_points
              /\ graded.is_correct = (score >= 70)
              /\ llm_calls' = llm_calls]_vars

C14_UnknownQuizNotFound ==
  [][/\ (handler = "none" /\ handler' \in {"get_quiz_questions", "submit_quiz"}) =>
          LET id == IF handler' = "submit_quiz" THEN submission'.quiz_id
                    ELSE requested_quiz'
              owned == /\ id \in DOMAIN quizzes
                       /\ quizzes[id].user_id = CurrentUser
          IN  ~owned =>
                /\ hpc' = "responding"
                /\ response' = [status |-> 404, detail |-> "Quiz not found"]
                /\ llm_calls' = 0
                /\ UNCHANGED <<dbVars, genVars>>
     /\ (/\ handler \in {"get_quiz_questions", "submit_quiz"}
         /\ hpc = "responding"
         /\ response.status = 404) =>
          /\ handler' = "none"
          /\ UNCHANGED <<dbVars, genVars>>]_vars

\* the questions of another user's quiz have been asked for, and refused
C14_Witness ==
  /\ handler = "get_quiz_questions"
  /\ requested_quiz = 2
  /\ hpc = "responding"
  /\ response.status = 404

\* C15: in a submission, an answer whose question_id is not the id of a
\* question of the submitted quiz is passed over: after the first n answers
\* the results hold one entry per matching answer among them, in order, the
\* maximum score is the sum of the points of those questions and the total
\* score is the sum of the points those entries earned; and every attempt
\* that is committed belongs to a matching answer and names the submitted
\* quiz and a question of that quiz.
C15_AttemptsReferenceQuiz ==
  (handler = "submit_quiz" /\ hpc \in {"scoring", "responding"}
     /\ (hpc = "responding" => response.status = 200)) =>
    LET quiz_id == submission.quiz_id
        OfQuiz(id) == \E i \in 1..Len(quiz_questions) :
                        /\ quiz_questions[i].quiz_id = quiz_id
                        /\ quiz_questions[i].id = id
        PointsOf(id) ==
          (CHOOSE q \in {quiz_questions[i] : i \in 1..Len(quiz_questions)} :
             q.id = id).points
        n == IF hpc = "responding" THEN Len(submission.answers) ELSE k - 1
        matched == SelectSeq(SubSeq(submission.answers, 1, n),
                             LAMBDA a : OfQuiz(a.question_id))
        SumMax[i \in 0..Len(matched)] ==
          IF i = 0 THEN 0 ELSE SumMax[i - 1] + PointsOf(matched[i].question_id)
        SumEarned[i \in 0..Len(detailed_results)] ==
          IF i = 0 THEN 0 ELSE SumEarned[i - 1] + detailed_results[i].points_earned
    IN  /\ Len(detailed_results) = Len(matched)
        /\ \A i \in 1..Len(matched) :
             detailed_results[i].question_id = matched[i].question_id
        /\ max_score = SumMax[Len(matched)]
        /\ total_score = SumEarned[Len(detailed_results)]
        /\ hpc = "responding" =>
             /\ Len(committed.quiz_attempts) = Len(matched)
             /\ \A i \in 1..Len(matched) :
                  /\ committed.quiz_attempts[i].quiz_id = quiz_id
                  /\ committed.quiz_attempts[i].question_id = matched[i].question_id
                  /\ committed.quiz_attempts[i].user_answer = matched[i].user_answer
             /\ response.detailed_results = detailed_results
             /\ response.total_score = total_score
             /\ response.max_score = max_score

\* quiz 1 was submitted with an answer to question 3, a question of quiz 2:
\* the session is committed without any attempt and with no result
C15_Witness ==
  /\ handler = "submit_quiz"
  /\ hpc = "responding"
  /\ submission.quiz_id = 1
  /\ \E i \in 1..Len(submission.answers) : submission.answers[i].question_id = 3
  /\ Len(committed.quiz_sessions) = 1
  /\ committed.quiz_attempts = << >>
  /\ response.detailed_results = << >>
  /\ attempt_rows = 0

(***************************************************************************)
(* Properties of create_quiz, checked under SpecAuthor.                    *)
(***************************************************************************)
\* C11: generate_quiz_questions called with count = n returns exactly n
\* questions whatever the generator does: every finished iteration has
\* appended one question (the generated one, or the placeholder when the
\* call failed, the reply held no brace-delimited block or the block did not
\* parse), and create_quiz is never aborted.
C11_AuthoringReturnsCount ==
  handler = "create_quiz" =>
    /\ hpc = "authoring" => Len(questions_data) = qi
    /\ (hpc = "authoring" /\ qi >= quiz_data.total_questions) =>
         Len(questions_data) = quiz_data.total_questions
    /\ hpc = "responding" => response.status = 200

(***************************************************************************)
(* Properties of the helper methods, checked under SpecHelpers.            *)
(***************************************************************************)
\* C16: a retrieve_context call of either service for a subject that has no
\* loaded examples (its lower-cased name is no key of datasets, or its list
\* is empty) has returned the empty string, whatever the query, max_chars
\* and top_k are.
C16_NoCorpusReturnsEmpty ==
  (/\ call.fn = "retrieve_context"
   /\ \/ Lower(call.subject) \notin DOMAIN datasets
      \/ Len(datasets[Lower(call.subject)]) = 0)
    => call.result = ""

\* retrieve_context("math", ..., max_chars 1500, top_k 3) of GeminiService
\* has returned "" although the coding examples are loaded and the query
\* occurs in them
C16_Witness ==
  /\ call.fn = "retrieve_context"
  /\ call.service = "gemini"
  /\ call.subject = "math"
  /\ call.prompt = "What is a loop?"
  /\ call.max_chars = 1500
  /\ call.top_k = 3
  /\ "coding" \in DOMAIN datasets
  /\ call.result = ""

C18_EmotionConfidence ==
  call.fn = "analyze_emotion" =>
    LET table == IF call.service = "gemini" THEN patterns ELSE emotion_patterns
        scores == EmotionScores(call.service, call.text)
        confidence == call.result.confidence
    IN  /\ confidence.den > 0
        /\ 0 <= confidence.num
        /\ confidence.num <= confidence.den
        /\ IF \A i \in 1..Len(scores) : scores[i] = 0
           THEN call.result = [emotion |-> "neutral",
                               confidence |-> [num |-> 1, den |-> 2]]
           ELSE \E i \in 1..Len(scores) :
                  /\ call.result.emotion = table[i].emotion
                  /\ \A j \in 1..Len(scores) : scores[j] <= scores[i]
                  /\ confidence.num * SumSeq(scores) = scores[i] * confidence.den

\* EmotionAnalyzer found "I am stuck, help!" frustrated with confidence
\* 2.5 / 4
C18_Witness ==
  /\ call.fn = "analyze_emotion"
  /\ call.service = "analyzer"
  /\ call.text = "I am stuck, help!"
  /\ call.result.emotion = "frustrated"
  /\ call.result.confidence = [num |-> 5, den |-> 8]

\* C19: detect_language has returned "Roman Urdu" exactly when the number of
\* words of the lower-cased prompt that are a marker or start with one is at
\* least 1 and at least 15% of the number of words, and "English" otherwise,
\* as for the empty prompt.
C19_LanguageThreshold ==
  call.fn = "detect_language" =>
    LET words == Split(Strip(Lower(call.prompt)))
        matching == {n \in 1..Len(words) :
                       \E marker \in roman_urdu_markers :
                         \/ words[n] = marker
                         \/ /\ Len(words[n]) > Len(marker)
                            /\ SubSeq(words[n], 1, Len(marker)) = marker}
        informal == /\ Cardinality(matching) >= 1
                    /\ 100 * Cardinality(matching) >= 15 * Len(words)
    IN  /\ call.result = (IF informal THEN "Roman Urdu" ELSE "English")
        /\ call.prompt = "" => call.result = "English"

\* three of twenty words are markers, exactly 15%: Roman Urdu
C19_Witness ==
  /\ call.fn = "detect_language"
  /\ call.prompt = "ka ki ko a b c d e f g h i j k l m n o p q"
  /\ call.result = "Roman Urdu"

(***************************************************************************)
(* Properties of get_quiz_recommendations, checked under SpecRecommend.    *)
(***************************************************************************)
\* C20: for a non-empty progress map, the first recommendation is for the
\* subject with the lowest scalar, the first such subject in the order of the
\* map, at difficulty beginner below 30, intermediate from 30 and below 60,
\* advanced from 60, with priority high; every other subject whose scalar is
\* below 80 is recommended exactly once, after it and with priority medium;
\* no other subject is recommended.
C20_Recommendations ==
  (/\ handler = "get_quiz_recommendations"
   /\ hpc = "responding"
   /\ DOMAIN progress # {}) =>
    LET recs == response.recommendations
        items == response.progress_summary
        Lowest(i) == \A j \in 1..Len(items) : items[i].score <= items[j].score
        w == CHOOSE i \in 1..Len(items) :
               Lowest(i) /\ \A j \in 1..(i - 1) : ~Lowest(j)
        Times(x) == Cardinality({i \in 1..Len(recs) : recs[i].subject = x})
    IN  /\ {items[i].subject : i \in 1..Len(items)} = DOMAIN progress
        /\ \A i \in 1..Len(items) : items[i].score = progress[items[i].subject]
        /\ Len(recs) >= 1
        /\ recs[1].subject = items[w].subject
        /\ recs[1].priority = "high"
        /\ recs[1].difficulty =
             (IF 30 * ProgressScale > items[w].score THEN "beginner"
              ELSE IF 60 * ProgressScale > items[w].score THEN "intermediate"
              ELSE "advanced")
        /\ Times(items[w].subject) = 1
        /\ \A i \in 1..Len(items) :
             i # w =>
               Times(items[i].subject) =
                 (IF items[i].score < 80 * ProgressScale THEN 1 ELSE 0)
        /\ \A i \in 2..Len(recs) :
             /\ recs[i].subject \in DOMAIN progress
             /\ recs[i].priority = "medium"

\* math and ielts are tied at 30 and coding is at 80: ielts, first in the
\* map, is recommended at intermediate, math follows, coding is left out
C20_Witness ==
  /\ handler = "get_quiz_recommendations"
  /\ hpc = "responding"
  /\ DOMAIN progress = {"coding", "math", "ielts"}
  /\ progress["math"] = 30 * ProgressScale
  /\ progress["ielts"] = 30 * ProgressScale
  /\ progress["coding"] = 80 * ProgressScale
  /\ response.progress_summary[1].subject = "ielts"
  /\ Len(response.recommendations) = 2
  /\ response.recommendations[1].subject = "ielts"
  /\ response.recommendations[1].difficulty = "intermediate"
  /\ response.recommendations[2].subject = "math"

(***************************************************************************)
(* Properties of concurrent requests, checked under SpecServer.            *)
(***************************************************************************)
\* C21: while a request waits in the retry backoff of generate_response,
\* every other request that has arrived can be started and every other
\* request whose handler has returned can be answered, whatever the
\* endpoints of the requests are.
C21_BackoffSuspendsOnlyItsRequest ==
  \A r \in Requests :
    requests[r].at = "sleeping" =>
      \A q \in Requests \ {r} :
        /\ requests[q].at = "waiting" => ENABLED Start(q)
        /\ requests[q].at = "returned" => ENABLED Complete(q)

(***************************************************************************)
(* Properties of the retry loop, checked under SpecGenFair.                *)
(***************************************************************************)
\* C22: within one GeminiService.generate_response call at most
\* max_retries + 1 primary generation calls are started; every attempt but
\* the first follows a failure of the attempt before it whose message holds a
\* quota/rate-limit indicator, made with attempt number n < max_retries, and
\* a sleep of 2^n plus a jitter within [0, 1], so that the sleeps strictly
\* increase; and a call that has entered the loop reaches a return: success
\* (or the apology for an empty text), the fallback of exhaustion, or the
\* hard-failure apology.  Waits are in tenths of a time unit.
C22_BoundedRetries ==
  /\ [](service = "gemini" =>
          LET started == genCalls + (IF pc = "attempting" THEN 1 ELSE 0)
              Transient(msg) ==
                \E ind \in {"429", "quota", "rate limit", "too many requests",
                            "billing", "free tier"} :
                  Contains(Lower(msg), ind)
          IN  /\ started <= max_retries + 1
              /\ Len(waits) = (IF started > 0 THEN started - 1 ELSE 0)
              /\ \A n \in 0..(started - 2) :
                   /\ n < max_retries
                   /\ Len(failures) > n
                   /\ Transient(failures[n + 1])
                   /\ waits[n + 1] >= 10 * Pow2(n)
                   /\ waits[n + 1] <= 10 * Pow2(n) + 10
              /\ \A i \in 1..(Len(waits) - 1) : waits[i] < waits[i + 1])
  /\ ((service = "gemini" /\ pc = "attempting")
        ~> (/\ pc = "returned"
            /\ outcome \in {"success", "empty_output", "exhausted",
                            "hard_failure"}))

\* three quota failures with max_retries 2: sleeps of 1.9 and 2.0 time units,
\* then the fallback
C22_Witness ==
  /\ service = "gemini"
  /\ pc = "returned"
  /\ outcome = "exhausted"
  /\ max_retries = 2
  /\ genCalls = 3
  /\ waits = <<19, 20>>

\* C23: a failure of a primary generation call is handled as a transient
\* capacity failure (a sleep and a retry, or the fallback after the last
\* attempt) exactly when its message, compared without regard to case, holds
\* one of 429, "quota", "rate limit", "too many requests", "billing" and
\* "free tier"; every other failure ends the call with the hard-failure
\* apology.
C23_TransientClassification ==
  service = "gemini" =>
    \A i \in 1..Len(failures) :
      (\E ind \in {"429", "quota", "rate limit", "too many requests",
                   "billing", "free tier"} :
         Contains(Lower(failures[i]), ind))
      <=> ~(i = Len(failures) /\ outcome = "hard_failure")

(***************************************************************************)
(* Properties of the ranking of retrieve_context, checked under            *)
(* SpecHelpers.                                                            *)
(***************************************************************************)
\* C24: when the budget holds every block, the excerpt retrieve_context has
\* returned for top_k >= 1 is made of the examples with the top_k highest
\* scores in descending order of score, examples of equal score in the order
\* of the corpus and the earliest of them first at the cut; this for the
\* vector scores (every example is ranked) and for the lexical scores (the
\* examples that share a token with the query are ranked).
C24_RankedByScoreThenInsertion ==
  (/\ call.fn = "retrieve_context"
   /\ call.max_chars = 1500
   /\ call.top_k >= 1
   /\ Lower(call.subject) \in DOMAIN datasets
   /\ (Lower(call.subject) \in vectorizers
         => Len(tfidf_matrices[Lower(call.subject)])
              = Len(datasets[Lower(call.subject)])))
  => LET data == datasets[Lower(call.subject)]
         vector == call.service = "gemini" /\ Lower(call.subject) \in vectorizers
         scores == IF vector THEN tfidf_matrices[Lower(call.subject)]
                   ELSE Scores(Tokens(Lower(call.prompt)), data,
                               call.service = "gemini")
         ranked == {i \in 1..Len(data) : vector \/ scores[i] > 0}
         Before(a, b) ==
           scores[a] > scores[b] \/ (scores[a] = scores[b] /\ a < b)
         Nth(n) == CHOOSE i \in ranked :
                     Cardinality({j \in ranked : Before(j, i)}) = n - 1
         RECURSIVE Blocks(_)
         Blocks(n) == IF n > Min(call.top_k, Cardinality(ranked)) THEN << >>
                      ELSE << Chunk(data[Nth(n)]) >> \o Blocks(n + 1)
     IN  call.result = JoinBlank(Blocks(1))

(***************************************************************************)
(* Properties of the character budget of retrieve_context, checked under   *)
(* SpecBudget.                                                             *)
(***************************************************************************)
\* C25: with the vector scores and with the lexical scores, the excerpt
\* retrieve_context has returned is made of at most top_k blocks in rank
\* order; the first block that does not fit in what is left of max_chars is
\* cut to what is left (and marked "...") when more than 100 characters are
\* left and is left out otherwise, and no block follows it.
C25_BudgetTruncation ==
  (/\ call.fn = "retrieve_context"
   /\ Lower(call.subject) \in DOMAIN datasets)
  => LET data == datasets[Lower(call.subject)]
         vector == call.service = "gemini" /\ Lower(call.subject) \in vectorizers
         scores == IF vector THEN tfidf_matrices[Lower(call.subject)]
                   ELSE Scores(Tokens(Lower(call.prompt)), data,
                               call.service = "gemini")
         ranked == {i \in 1..Len(data) : vector \/ scores[i] > 0}
         Before(a, b) ==
           scores[a] > scores[b] \/ (scores[a] = scores[b] /\ a < b)
         Nth(n) == CHOOSE i \in ranked :
                     Cardinality({j \in ranked : Before(j, i)}) = n - 1
         RECURSIVE Blocks(_, _)
         Blocks(n, used) ==
           IF n > Min(call.top_k, Cardinality(ranked)) THEN << >>
           ELSE LET block == Chunk(data[Nth(n)])
                    left == call.max_chars - used
                IN  IF Len(block) <= left
                    THEN << block >> \o Blocks(n + 1, used + Len(block))
                    ELSE IF left > 100
                    THEN << SubSeq(block, 1, left) \o "..." >>
                    ELSE << >>
     IN  call.result = JoinBlank(Blocks(1, 0))

(***************************************************************************)
(* Properties of the expansion pass, checked under SpecGen.                *)
(***************************************************************************)
\* C26: the expansion call of generate_response (the refinement call of
\* LLMSService) is made at most once in a call and ends the call with a
\* return, never with an exception; the text it gave replaces the cleaned
\* answer only when it has at least 80% of the words of the cleaned answer,
\* and otherwise, also when the expansion call failed, the cleaned answer is
\* kept and returned (for an empty cleaned answer of GeminiService, the
\* apology that stands for it).
C26_ExpansionPass ==
  [][(pc \in {"enhancing", "llms_refining"}) =>
       (/\ enhanceCalls = 0
        /\ enhanceCalls' = 1
        /\ pc' = "returned"
        /\ \/ /\ cleaned' # cleaned
              /\ 10 * WordCount(cleaned') >= 8 * WordCount(cleaned)
              /\ result' = cleaned'
           \/ /\ cleaned' = cleaned
              /\ result' = (IF cleaned = "" /\ service = "gemini"
                            THEN EmptyOutputMessage ELSE cleaned)
       )]_vars

\* "explain loops" was answered in fewer than 80 words and the eight words
\* of the expansion were adopted
C26_Witness ==
  /\ service = "gemini"
  /\ pc = "returned"
  /\ prompt = "explain loops"
  /\ genCalls = 1
  /\ enhanceCalls = 1
  /\ failures = << >>
  /\ result = "1. A loop repeats. 2. Use for."

(***************************************************************************)
(* Properties of the grading of open-ended answers, checked under Spec.    *)
(***************************************************************************)
\* C27: while calculate_quiz_score waits for the evaluation of an open-ended
\* answer, generate_response makes no expansion call, and a call whose
\* primary generation call succeeded returns the cleaned primary reply (the
\* apology for an empty one), so that the score is the first integer of the
\* primary reply.
C27_GradingReplyNotExpanded ==
  (handler = "submit_quiz" /\ hpc = "evaluating") =>
    /\ pc # "enhancing"
    /\ enhanceCalls = 0
    /\ (pc = "returned" /\ outcome \in {"success", "empty_output"}) =>
         \E text \in HandlerTexts :
           result = IF CleanResponse(text) = "" THEN EmptyOutputMessage
                    ELSE CleanResponse(text)

(***************************************************************************)
(* Properties of repeated submissions, checked under SpecResubmit.         *)
(***************************************************************************)
\* C28: a quiz whose status is completed stays completed, and a submit_quiz
\* request for a quiz that is completed changes no progress scalar and adds
\* no row to quiz_sessions.
C28_CompletedQuizNotRegraded ==
  [][/\ \A q \in DOMAIN quizzes :
          quizzes[q].status = "completed" => quizzes'[q].status = "completed"
     /\ (/\ handler = "submit_quiz"
         /\ QuizFound(submission.quiz_id)
         /\ quizzes[submission.quiz_id].status = "completed")
          => (progress' = progress /\ session_rows' = session_rows)]_vars

(***************************************************************************)
(* Properties of the maximum score, checked under Spec.                    *)
(***************************************************************************)
\* C29: the max_score of a graded submission is the sum of the points of the
\* questions of the quiz, each counted once, whichever of them the
\* submission answers and however often.
C29_EachQuestionCountedOnce ==
  (handler = "submit_quiz" /\ hpc = "responding" /\ response.status = 200)
    => LET questions == QuestionsOfQuiz(submission.quiz_id)
       IN  response.max_score =
             SumSeq([i \in 1..Len(questions) |-> questions[i].points])

(***************************************************************************)
(* Properties of what a learner is shown, checked under SpecFetch.         *)
(***************************************************************************)
\* C30: the questions returned by get_quiz_questions are the same for every
\* table that differs from the stored one only in correct answers and
\* explanations, and each entry holds only the id, text, type, options,
\* points and order of its question; the result of a submission holds the
\* correct answer of a question only if the submission answers it.
C30_FetchIndependentOfAnswers ==
  /\ (handler = "get_quiz_questions" /\ response.status = 200) =>
       /\ \A other \in QuestionVariants :
            response.questions = FetchedQuestions(other, requested_quiz)
       /\ \A i \in 1..Len(response.questions) :
            /\ DOMAIN response.questions[i] =
                 {"id", "question_text", "question_type", "options",
                  "points", "order"}
            /\ \E j \in 1..Len(quiz_questions) :
                 /\ quiz_questions[j].quiz_id = requested_quiz
                 /\ \A f \in DOMAIN response.questions[i] :
                      response.questions[i][f] = quiz_questions[j][f]
       /\ DOMAIN response \cap {"correct_answer", "explanation"} = {}
  /\ (handler = "submit_quiz" /\ hpc = "responding" /\ response.status = 200) =>
       /\ DOMAIN response \cap {"correct_answer", "explanation"} = {}
       /\ \A i \in 1..Len(response.detailed_results) :
            /\ "explanation" \notin DOMAIN response.detailed_results[i]
            /\ \E j \in 1..Len(submission.answers) :
                 submission.answers[j].question_id
                   = response.detailed_results[i].question_id

\* the questions of quiz 1 have been fetched while the stored correct answer
\* of its first question is "Option B"
C30_Witness ==
  /\ handler = "get_quiz_questions"
  /\ requested_quiz = 1
  /\ response.status = 200
  /\ Len(response.questions) = 2
  /\ quiz_questions[1].correct_answer = "Option B"

====
